---- MODULE Spec2Model ----
(***************************************************************************)
(* Model of the e-mail statement scraper: record-id generation, the        *)
(* load / merge / write-back cycle of the table and order sources, the     *)
(* attachment vault of the contract-note and pension sources, and the      *)
(* triggers that start a refresh (startup, interval job, HTTP requests).   *)
(*                                                                         *)
(* Strings are sequences of one-character strings so that the character    *)
(* level operations of the code (isalnum, replace, substring test, path    *)
(* joining) are computed and not assumed.                                  *)
(***************************************************************************)
EXTENDS Integers, Sequences, FiniteSets, TLC

(***************************************************************************)
(* Bounds of the model                                                     *)
(***************************************************************************)
MaxArrivals == 1      \* messages that arrive while the process runs
MaxRequests == 2      \* HTTP requests served by one process
MaxFirings == 2       \* firings of the interval job in one process
MaxTables == 2        \* tables in the HTML given to extract_table_data
MaxFaults == 1        \* failed network requests and failed writes in one process
MaxDays == 2          \* midnights that pass while one process runs
MaxRuns == 2          \* runs of the main() of a parser that are followed

(***************************************************************************)
(* Characters and strings                                                  *)
(***************************************************************************)
Digits == <<"0","1","2","3","4","5","6","7","8","9">>

\* str.isalnum() of one character
IsAlnum(c) ==
  c \in {Digits[i] : i \in 1..10} \cup
        {"a","b","c","d","e","f","g","h","i","j","k","l","m",
         "n","o","p","q","r","s","t","u","v","w","x","y","z",
         "A","B","C","D","E","F","G","H","I","J","K","L","M",
         "N","O","P","Q","R","S","T","U","V","W","X","Y","Z"}

AllDigits(s) == \A i \in 1..Len(s) : \E k \in 1..10 : Digits[k] = s[i]

RECURSIVE ToInt(_)
\* int(s) of a string of decimal digits
ToInt(s) ==
  IF s = <<>> THEN 0
  ELSE 10 * ToInt(SubSeq(s, 1, Len(s) - 1))
         + (CHOOSE i \in 1..10 : Digits[i] = s[Len(s)]) - 1

\* '%02d' % n
Pad2(n) == <<Digits[((n \div 10) % 10) + 1], Digits[(n % 10) + 1]>>

StartsWith(s, pre) == Len(s) >= Len(pre) /\ SubSeq(s, 1, Len(pre)) = pre

RECURSIVE ReplaceSub(_, _, _)
\* s.replace(old, new) for a non-empty old
ReplaceSub(s, old, new) ==
  IF Len(s) < Len(old) THEN s
  ELSE IF StartsWith(s, old)
    THEN new \o ReplaceSub(SubSeq(s, Len(old) + 1, Len(s)), old, new)
  ELSE <<Head(s)>> \o ReplaceSub(Tail(s), old, new)

\* s.strip()
Strip(s) ==
  LET kept == {i \in 1..Len(s) : s[i] \notin {" ", "\t", "\n", "\r"}}
  IN  IF kept = {} THEN <<>>
      ELSE SubSeq(s, CHOOSE i \in kept : \A j \in kept : i <= j,
                     CHOOSE i \in kept : \A j \in kept : i >= j)

\* sub in s
Contains(sub, s) ==
  \E i \in 0..(Len(s) - Len(sub)) : SubSeq(s, i + 1, i + Len(sub)) = sub

(***************************************************************************)
(* Dates and times                                                         *)
(***************************************************************************)
\* the zone of the host, minutes east of UTC, used by datetime.fromtimestamp
LocalUtcOffsetMinutes == 330

DaysInMonth(y, m) ==
  IF m = 2 THEN (IF (y % 4 = 0 /\ y % 100 # 0) \/ y % 400 = 0 THEN 29 ELSE 28)
  ELSE IF m \in {4, 6, 9, 11} THEN 30 ELSE 31

\* the outcome of a call: a value, or the exception it raised
Ok(v) == [err |-> "none", v |-> v]
Raise(e) == [err |-> e, v |-> <<>>]
IsError(x) == x.err # "none"

\* a datetime value; off is the UTC offset in minutes of an aware datetime and
\* Naive for one without zone (no real offset reaches a full day)
Naive == 24 * 60

DateTime(y, mo, d, h, mi, s, off) ==
  [Y |-> y, M |-> mo, D |-> d, h |-> h, m |-> mi, s |-> s, off |-> off]

\* the value of an offset written as sign, hours, minutes
OffsetMinutes(sign, hh, mm) ==
  IF sign = "-" THEN 0 - (ToInt(hh) * 60 + ToInt(mm)) ELSE ToInt(hh) * 60 + ToInt(mm)

ValidDateTime(y, mo, d, h, mi, s) ==
  /\ y >= 1 /\ mo \in 1..12 /\ d >= 1 /\ d <= DaysInMonth(y, mo)
  /\ h \in 0..23 /\ mi \in 0..59 /\ s \in 0..59

\* the date part YYYY-MM-DD at the head of s and, when asked for, the time
\* part HH:MM:SS at positions 12..19
IsoShapeOk(s, withTime) ==
  /\ AllDigits(SubSeq(s, 1, 4)) /\ s[5] = "-"
  /\ AllDigits(SubSeq(s, 6, 7)) /\ s[8] = "-"
  /\ AllDigits(SubSeq(s, 9, 10))
  /\ withTime => /\ AllDigits(SubSeq(s, 12, 13)) /\ s[14] = ":"
                 /\ AllDigits(SubSeq(s, 15, 16)) /\ s[17] = ":"
                 /\ AllDigits(SubSeq(s, 18, 19))

\* datetime.fromisoformat(s) for the forms YYYY-MM-DD, YYYY-MM-DD?HH:MM:SS and
\* YYYY-MM-DD?HH:MM:SS[+-]HH:MM; the wall-clock fields are kept as written
FromIsoFormat(s) ==
  LET y == ToInt(SubSeq(s, 1, 4))
      mo == ToInt(SubSeq(s, 6, 7))
      d == ToInt(SubSeq(s, 9, 10))
      h == ToInt(SubSeq(s, 12, 13))
      mi == ToInt(SubSeq(s, 15, 16))
      sec == ToInt(SubSeq(s, 18, 19))
      IsoOffsetOk == /\ s[20] \in {"+", "-"}
                     /\ AllDigits(SubSeq(s, 21, 22)) /\ s[23] = ":"
                     /\ AllDigits(SubSeq(s, 24, 25))
                     /\ ToInt(SubSeq(s, 24, 25)) <= 59
  IN  IF Len(s) = 10 /\ IsoShapeOk(s, FALSE) /\ ValidDateTime(y, mo, d, 0, 0, 0)
        THEN Ok(DateTime(y, mo, d, 0, 0, 0, Naive))
      ELSE IF /\ Len(s) \in {19, 25} /\ IsoShapeOk(s, TRUE)
              /\ (Len(s) = 25 => IsoOffsetOk)
              /\ ValidDateTime(y, mo, d, h, mi, sec)
        THEN Ok(DateTime(y, mo, d, h, mi, sec,
                         IF Len(s) = 19 THEN Naive
                         ELSE OffsetMinutes(s[20], SubSeq(s, 21, 22), SubSeq(s, 24, 25))))
      ELSE Raise("ValueError")

MonthNames ==
  << <<"J","a","n">>, <<"F","e","b">>, <<"M","a","r">>, <<"A","p","r">>,
     <<"M","a","y">>, <<"J","u","n">>, <<"J","u","l">>, <<"A","u","g">>,
     <<"S","e","p">>, <<"O","c","t">>, <<"N","o","v">>, <<"D","e","c">> >>

\* the Date header form "DD Mon YYYY HH:MM:SS +HHMM"
Rfc2822Ok(s) ==
  /\ Len(s) = 26
  /\ AllDigits(SubSeq(s, 1, 2)) /\ s[3] = " "
  /\ \E k \in 1..12 : MonthNames[k] = SubSeq(s, 4, 6)
  /\ s[7] = " " /\ AllDigits(SubSeq(s, 8, 11)) /\ s[12] = " "
  /\ AllDigits(SubSeq(s, 13, 14)) /\ s[15] = ":"
  /\ AllDigits(SubSeq(s, 16, 17)) /\ s[18] = ":"
  /\ AllDigits(SubSeq(s, 19, 20)) /\ s[21] = " "
  /\ s[22] \in {"+", "-"} /\ AllDigits(SubSeq(s, 23, 26))

RECURSIVE ShiftDays(_, _)
\* the calendar date n days after (before, for n < 0) the date of dt
ShiftDays(dt, n) ==
  LET PrevDay ==
        IF dt.D > 1 THEN [dt EXCEPT !.D = dt.D - 1]
        ELSE IF dt.M > 1
          THEN [dt EXCEPT !.M = dt.M - 1, !.D = DaysInMonth(dt.Y, dt.M - 1)]
        ELSE [dt EXCEPT !.Y = dt.Y - 1, !.M = 12, !.D = 31]
      NextDay ==
        IF dt.D < DaysInMonth(dt.Y, dt.M) THEN [dt EXCEPT !.D = dt.D + 1]
        ELSE IF dt.M < 12 THEN [dt EXCEPT !.M = dt.M + 1, !.D = 1]
        ELSE [dt EXCEPT !.Y = dt.Y + 1, !.M = 1, !.D = 1]
  IN  IF n = 0 THEN dt
      ELSE IF n > 0 THEN ShiftDays(NextDay, n - 1)
      ELSE ShiftDays(PrevDay, n + 1)

\* datetime.fromtimestamp(mktime_tz(parsedate_tz(s))): the instant written in
\* the header, expressed as naive wall-clock time of the host's zone
FromTimestampOfHeader(s) ==
  LET d == ToInt(SubSeq(s, 1, 2))
      mo == CHOOSE k \in 1..12 : MonthNames[k] = SubSeq(s, 4, 6)
      y == ToInt(SubSeq(s, 8, 11))
      h == ToInt(SubSeq(s, 13, 14))
      mi == ToInt(SubSeq(s, 16, 17))
      sec == ToInt(SubSeq(s, 19, 20))
      off == OffsetMinutes(s[22], SubSeq(s, 23, 24), SubSeq(s, 25, 26))
      localMin == h * 60 + mi - off + LocalUtcOffsetMinutes
      dayShift == IF localMin >= 0 THEN localMin \div 1440
                  ELSE 0 - ((1439 - localMin) \div 1440)
      inDay == localMin - dayShift * 1440
      base == ShiftDays(DateTime(y, mo, d, 0, 0, 0, Naive), dayShift)
  IN  [base EXCEPT !.h = inDay \div 60, !.m = (inDay % 60), !.s = sec]

\* datetime.strptime(s, '%Y-%m-%d %H:%M:%S %z') for the form
\* "YYYY-MM-DD HH:MM:SS +HHMM": an aware datetime holding the wall-clock
\* fields as written
StrptimeIsoLike(s) ==
  LET y == ToInt(SubSeq(s, 1, 4))
      mo == ToInt(SubSeq(s, 6, 7))
      d == ToInt(SubSeq(s, 9, 10))
      h == ToInt(SubSeq(s, 12, 13))
      mi == ToInt(SubSeq(s, 15, 16))
      sec == ToInt(SubSeq(s, 18, 19))
      IsoLikeOk ==
        /\ Len(s) = 25 /\ IsoShapeOk(s, TRUE) /\ s[11] = " " /\ s[20] = " "
        /\ s[21] \in {"+", "-"} /\ AllDigits(SubSeq(s, 22, 25))
        /\ ToInt(SubSeq(s, 24, 25)) <= 59
  IN  IF IsoLikeOk /\ ValidDateTime(y, mo, d, h, mi, sec)
        THEN Ok(DateTime(y, mo, d, h, mi, sec,
                         OffsetMinutes(s[21], SubSeq(s, 22, 23), SubSeq(s, 24, 25))))
      ELSE Raise("ValueError")

\* parse_email_date(date_str): the RFC 2822 parse first; of the strptime
\* fallbacks only the ISO-like one accepts a string the first parse rejects;
\* the last attempt repeats the first parse and raises Raise("ValueError")
parse_email_date(date_str) ==
  IF /\ Rfc2822Ok(date_str)
     /\ ValidDateTime(ToInt(SubSeq(date_str, 8, 11)),
                      CHOOSE k \in 1..12 : MonthNames[k] = SubSeq(date_str, 4, 6),
                      ToInt(SubSeq(date_str, 1, 2)),
                      ToInt(SubSeq(date_str, 13, 14)),
                      ToInt(SubSeq(date_str, 16, 17)),
                      ToInt(SubSeq(date_str, 19, 20)))
  THEN Ok(FromTimestampOfHeader(date_str))
  ELSE StrptimeIsoLike(date_str)

\* dt.strftime('%Y%m%d%H%M%S')
Strftime(dt) ==
  Pad2(dt.Y \div 100) \o Pad2(dt.Y % 100) \o Pad2(dt.M) \o Pad2(dt.D) \o Pad2(dt.h) \o Pad2(dt.m) \o Pad2(dt.s)

\* dt.isoformat() of a datetime without microseconds
IsoFormat(dt) ==
  Pad2(dt.Y \div 100) \o Pad2(dt.Y % 100) \o <<"-">> \o Pad2(dt.M) \o <<"-">> \o Pad2(dt.D) \o <<"T">>
    \o Pad2(dt.h) \o <<":">> \o Pad2(dt.m) \o <<":">> \o Pad2(dt.s)
    \o (IF dt.off = Naive THEN <<>>
        ELSE <<IF dt.off < 0 THEN "-" ELSE "+">>
               \o Pad2((IF dt.off < 0 THEN 0 - dt.off ELSE dt.off) \div 60)
               \o <<":">>
               \o Pad2((IF dt.off < 0 THEN 0 - dt.off ELSE dt.off) % 60))

RECURSIVE JoinAlnum(_)
\* ''.join(e for e in s if e.isalnum() or e == '_'): the characters of \\w
JoinWordChars(s) ==
  IF s = <<>> THEN <<>>
  ELSE (IF IsAlnum(Head(s)) \/ Head(s) = "_" THEN <<Head(s)>> ELSE <<>>)
         \o JoinAlnum(Tail(s))

\* ''.join(e for e in s if e.isalnum())
JoinAlnum(s) ==
  IF s = <<>> THEN <<>>
  ELSE (IF IsAlnum(Head(s)) THEN <<Head(s)>> ELSE <<>>) \o JoinAlnum(Tail(s))

\* an optional string: None, or a string
None == [some |-> FALSE, s |-> <<>>]
Some(s) == [some |-> TRUE, s |-> s]

\* generate_record_id(timestamp, fund_name, subject); timestamp is a string,
\* fund_name is a string or None
generate_record_id(timestamp, fund_name, subject) ==
  LET iso == FromIsoFormat(ReplaceSub(timestamp, <<"Z">>, <<"+","0","0",":","0","0">>))
      dt == IF IsError(iso) THEN parse_email_date(timestamp) ELSE iso
  IN  IF IsError(dt) THEN Raise("ValueError")
      ELSE IF ~fund_name.some THEN Raise("TypeError")
      ELSE Ok(Strftime(dt.v) \o <<"_">> \o JoinAlnum(fund_name.s) \o <<"_">> \o JoinAlnum(subject))

(***************************************************************************)
(* Paths                                                                   *)
(***************************************************************************)
RECURSIVE Split(_, _)
\* s.split(c) for a one-character separator c
Split(s, c) ==
  IF \A i \in 1..Len(s) : s[i] # c THEN <<s>>
  ELSE LET k == CHOOSE i \in 1..Len(s) : s[i] = c /\ \A j \in 1..(i - 1) : s[j] # c
       IN  <<SubSeq(s, 1, k - 1)>> \o Split(SubSeq(s, k + 1, Len(s)), c)

RECURSIVE JoinWith(_, _)
\* c.join(parts)
JoinWith(parts, c) ==
  IF parts = <<>> THEN <<>>
  ELSE IF Len(parts) = 1 THEN parts[1]
  ELSE parts[1] \o <<c>> \o JoinWith(Tail(parts), c)

\* os.path.join(a, b)
PathJoin(a, b) ==
  IF b # <<>> /\ b[1] = "/" THEN b
  ELSE IF a = <<>> \/ a[Len(a)] = "/" THEN a \o b
  ELSE a \o <<"/">> \o b

RECURSIVE ResolveParts(_, _, _)
\* walk the components of a path: "." and "" stay, ".." goes to the parent
ResolveParts(parts, acc, absolute) ==
  IF parts = <<>> THEN acc
  ELSE LET c == Head(parts)
       IN  IF c = <<>> \/ c = <<".">> THEN ResolveParts(Tail(parts), acc, absolute)
           ELSE IF c = <<".", ".">>
             THEN IF acc # <<>> /\ acc[Len(acc)] # <<".", ".">>
                    THEN ResolveParts(Tail(parts), SubSeq(acc, 1, Len(acc) - 1), absolute)
                  ELSE IF absolute THEN ResolveParts(Tail(parts), acc, absolute)
                  ELSE ResolveParts(Tail(parts), Append(acc, c), absolute)
           ELSE ResolveParts(Tail(parts), Append(acc, c), absolute)

\* the file a path names once the operating system has resolved it
NormPath(p) ==
  LET absolute == p # <<>> /\ p[1] = "/"
  IN  (IF absolute THEN <<"/">> ELSE <<>>)
        \o JoinWith(ResolveParts(Split(p, "/"), <<>>, absolute), "/")

(***************************************************************************)
(* Configuration (config.py)                                               *)
(***************************************************************************)
ZERODHA_SUBJECT == <<"C","o","i","n"," ","b","y"," ","Z","e","r","o","d","h","a"," ","-"," ","A","l","l","o","t","m","e","n","t"," ","R","e","p","o","r","t">>


TableSources == {"zerodha", "paytm"}
AttachmentSources == {"equity", "nps"}

AccountKeys == {"ME", "MAA", "BABA"}

\* DATA_SOURCE_MAPPINGS[src]["emails"], as the names of the environment variables
SourceAccounts(src) ==
  CASE src = "zerodha" -> <<"ME", "MAA">>
    [] src = "paytm" -> <<"ME">>
    [] src = "equity" -> <<"ME", "BABA", "MAA">>
    [] src = "nps" -> <<"ME">>

\* DATA_SOURCE_MAPPINGS[src]["subject_substring"]
SubjectSubstring(src) ==
  CASE src = "zerodha" -> ZERODHA_SUBJECT
    [] src = "paytm" -> <<"O","r","d","e","r"," ","S","e","n","t"," ","t","o"," ","A","M","C">>
    [] src = "equity" ->
         <<"C","o","m","b","i","n","e","d"," ","E","q","u","i","t","y"," ",
           "C","o","n","t","r","a","c","t"," ","N","o","t","e"," ","f","o",
           "r">>
    [] src = "nps" ->
         <<"M","o","n","t","h","l","y"," ","T","r","a","n","s","a","c","t",
           "i","o","n"," ","S","t","a","t","e","m","e","n","t"," ","o","f",
           " ","y","o","u","r"," ","N","P","S"," ","a","c","c","o","u","n",
           "t"," ","f","o","r"," ","t","h","e"," ","p","e","r","i","o","d">>

\* DATA_SOURCE_MAPPINGS[src]["output_dir"].format(email=email)
OutputDir(src, email) ==
  CASE src = "zerodha" -> <<"d","a","t","a","/","z","e","r","o","d","h","a","/">> \o email
    [] src = "paytm" ->
         <<"d","a","t","a","/","p","a","y","t","m","m","o","n","e","y","/">> \o email
    [] src = "equity" ->
         <<"d","a","t","a","/","e","q","u","i","t","y","/">> \o email
           \o <<"/","c","o","n","t","r","a","c","t","_","n","o","t","e","s">>
    [] src = "nps" ->
         <<"d","a","t","a","/","n","p","s","/">> \o email
           \o <<"/","t","r","a","n","s","a","c","t","i","o","n","s">>

\* os.path.join(output_dir, "transactions.json")
JsonFilePath(src, email) ==
  PathJoin(OutputDir(src, email),
           <<"t","r","a","n","s","a","c","t","i","o","n","s",".","j","s","o","n">>)

\* the service whose token the scraper of a source asks for: the brokerage
\* and the payment-platform scraper both ask for "gmail"
ServiceOfScraper(src) ==
  CASE src \in {"zerodha", "paytm"} -> "gmail"
    [] src = "equity" -> "contract_notes"
    [] src = "nps" -> "nps"

\* ACCOUNTS_CONFIG["accounts"][key]["services"]
AccountServices(key) ==
  IF key = "ME" THEN {"gmail", "contract_notes", "paytm", "nps"}
  ELSE {"gmail", "contract_notes", "paytm"}

(***************************************************************************)
(* Messages as the message source returns them                             *)
(*                                                                         *)
(* A message carries the day it was received, an optional Date header and  *)
(* a payload.  The HTML body is kept as the element tree the HTML parser   *)
(* yields: the tables with their style, header cells and rows, and the two *)
(* styled elements of an order mail.  parts are the attachment parts.      *)
(***************************************************************************)
Table(sig, ths, trs) == [sig |-> sig, ths |-> ths, trs |-> trs]
Row(fund_list, tds) == [fund_list |-> fund_list, tds |-> tds]

Message(day, hdr, hasData, tables, amount, name, parts) ==
  [day |-> day, hdr |-> hdr, hasData |-> hasData, tables |-> tables,
   amount |-> amount, name |-> name, parts |-> parts]

\* dict(zip(headers, row_data)): pairs up to the shorter length, a repeated
\* header keeps its last cell
ZipDict(headers, row_data) ==
  LET n == IF Len(headers) <= Len(row_data) THEN Len(headers) ELSE Len(row_data)
  IN  [k \in {headers[i] : i \in 1..n} |->
         row_data[CHOOSE i \in 1..n :
                    headers[i] = k /\ \A j \in (i + 1)..n : headers[j] # k]]

RECURSIVE FundListRows(_, _)
\* one dict per <tr class="fund_list">, in row order, cell text stripped
FundListRows(headers, trs) ==
  IF trs = <<>> THEN <<>>
  ELSE (IF Head(trs).fund_list
          THEN <<ZipDict(headers, [i \in 1..Len(Head(trs).tds) |-> Strip(Head(trs).tds[i])])>>
        ELSE <<>>)
       \o FundListRows(headers, Tail(trs))

\* an extractor that returns None when it has no rows to return
extract_table_data_or_none(tables) ==
  IF \E i \in 1..Len(tables) : tables[i].sig /\ \E n \in 1..Len(tables[i].trs) :
                                                  tables[i].trs[n].fund_list
    THEN LET table == tables[CHOOSE i \in 1..Len(tables) :
                               tables[i].sig /\ \A j \in 1..(i - 1) : ~tables[j].sig]
         IN  [found |-> TRUE, rows |-> FundListRows(table.ths, table.trs)]
  ELSE [found |-> FALSE, rows |-> <<>>]

\* extract_table_data(html_content): found is FALSE for the result None
extract_table_data(tables) ==
  IF \E i \in 1..Len(tables) : tables[i].sig
    THEN LET table == tables[CHOOSE i \in 1..Len(tables) :
                               tables[i].sig /\ \A j \in 1..(i - 1) : ~tables[j].sig]
         IN  [found |-> TRUE, rows |-> FundListRows(table.ths, table.trs)]
  ELSE [found |-> FALSE, rows |-> <<>>]

\* the character U+20B9 (rupee sign)
RUPEE == "INR"

\* extract_order_details(html_content, received_datetime): found is FALSE for
\* the result None; received is the parsed Date header, absent when the
\* message has no Date header (then .isoformat() raises inside the try)
extract_order_details(amount, name, hasReceived, received) ==
  LET order_value ==
        IF ~amount.some THEN None
        ELSE IF amount.s = <<>> THEN Some(<<>>)
        ELSE Some(Strip(ReplaceSub(amount.s, <<RUPEE>>, <<>>)))
      fund_name ==
        IF name.some THEN Some(Strip(ReplaceSub(name.s, <<"S","I","P">>, <<>>))) ELSE None
  IN  IF ~hasReceived THEN [found |-> FALSE, rec |-> <<>>]
      ELSE [found |-> TRUE,
            rec |-> [order_value |-> order_value, fund_name |-> fund_name,
                     received_datetime |-> Some(IsoFormat(received))]]

(***************************************************************************)
(* The store: the file is a JSON array of records, in memory it is a dict  *)
(* keyed by id.  A dict is the sequence of its entries in insertion order. *)
(* A record maps field names to JSON values (a string or null).            *)
(***************************************************************************)
\* d.setdefault(key, value): an existing key keeps its value
DictSetDefault(d, k, v) ==
  IF \E i \in 1..Len(d) : d[i].k = k THEN d ELSE Append(d, [k |-> k, v |-> v])

\* d[key] = value: an existing key keeps its place, a new key goes last
DictSet(d, k, v) ==
  IF \E i \in 1..Len(d) : d[i].k = k
    THEN [d EXCEPT ![CHOOSE i \in 1..Len(d) : d[i].k = k] = [k |-> k, v |-> v]]
  ELSE Append(d, [k |-> k, v |-> v])

\* list(d.values())
Values(d) == [i \in 1..Len(d) |-> d[i].v]

\* json.load that takes the text between the quotes as it stands
JsonLoadRaw(docs) ==
  [i \in 1..Len(docs) |->
     [k \in DOMAIN docs[i] |->
        IF docs[i][k].null THEN None
        ELSE Some(SubSeq(docs[i][k].text, 2, Len(docs[i][k].text) - 1))]]

\* json.load(f): every object of the array becomes a dict, null becomes
\* None and a string literal the text it denotes
JsonLoad(docs) ==
  LET RECURSIVE Unescape(_)
      Unescape(t) ==
        IF t = <<>> THEN <<>>
        ELSE IF Head(t) # "\\" THEN <<Head(t)>> \o Unescape(Tail(t))
        ELSE IF t[2] = "u"
          THEN <<IF SubSeq(t, 3, 6) = <<"2","0","b","9">> THEN RUPEE ELSE "?">>
               \o Unescape(SubSeq(t, 7, Len(t)))
        ELSE <<t[2]>> \o Unescape(SubSeq(t, 3, Len(t)))
  IN  [i \in 1..Len(docs) |->
         [k \in DOMAIN docs[i] |->
            IF docs[i][k].null THEN None
            ELSE Some(Unescape(SubSeq(docs[i][k].text, 2, Len(docs[i][k].text) - 1)))]]

\* json.dump(records, f, indent=2), ensure_ascii by default: every dict
\* becomes an object, None becomes null and a str a string literal in which
\* the quote and the backslash are escaped and a character beyond ASCII is
\* written as \uXXXX
JsonDump(records) ==
  LET RECURSIVE Escape(_)
      Escape(s) ==
        IF s = <<>> THEN <<>>
        ELSE (CASE Head(s) = "\"" -> <<"\\", "\"">>
                [] Head(s) = "\\" -> <<"\\", "\\">>
                [] Head(s) = RUPEE -> <<"\\","u","2","0","b","9">>
                [] OTHER -> <<Head(s)>>) \o Escape(Tail(s))
  IN  [i \in 1..Len(records) |->
         [k \in DOMAIN records[i] |->
            IF records[i][k].some
              THEN [null |-> FALSE, text |-> <<"\"">> \o Escape(records[i][k].s) \o <<"\"">>]
            ELSE [null |-> TRUE, text |-> <<>>]]]

RECURSIVE LoadRecords(_, _)
\* a call that starts from an empty mapping whatever the file holds
LoadNothing(records, acc) == acc

\* {record['id']: record for record in json.load(f)}
LoadRecords(records, acc) ==
  IF records = <<>> THEN acc
  ELSE LoadRecords(Tail(records), DictSet(acc, Head(records)["id"].s, Head(records)))

\* the result of a merge step: the dict, the records merged so far, or the
\* exception that ended it
Merged(err, d, batch) == [err |-> err, d |-> d, batch |-> batch]

\* a list that collects every record, in place of the dict keyed by id
StoreRecordAppended(d, id, rec) == Append(d, [k |-> id, v |-> ("id" :> Some(id)) @@ rec])

\* the three statements of the loop body that store one record
StoreRecord(d, id, rec) == DictSet(d, id, ("id" :> Some(id)) @@ rec)

RECURSIVE MergeRows(_, _, _, _)
\* gmail_scraper: for record in extracted_data: ... existing_data[record_id] = record
MergeRows(d, rows, subject, batch) ==
  IF rows = <<>> THEN Merged("none", d, batch)
  ELSE LET record == ("email_subject" :> Some(subject))
                       @@ [k \in DOMAIN Head(rows) |-> Some(Head(rows)[k])]
       IN  IF "Date" \notin DOMAIN record \/ "Fund" \notin DOMAIN record
             THEN Merged("KeyError", d, batch)
           ELSE LET rid == generate_record_id(record["Date"].s, record["Fund"], subject)
                IN  IF IsError(rid) THEN Merged(rid.err, d, batch)
                    ELSE MergeRows(StoreRecord(d, rid.v, record), Tail(rows), subject,
                                   Append(batch, ("id" :> Some(rid.v)) @@ record))

\* the body of the message loop without the try around parse_email_date
ProcessTableMessageNoTry(d, msg, subject, batch) ==
  LET received == IF msg.hdr.some THEN parse_email_date(msg.hdr.s) ELSE Ok(<<>>)
      extracted == extract_table_data(msg.tables)
  IN  IF msg.hdr.some /\ IsError(received) THEN Merged(received.err, d, batch)
      ELSE IF ~msg.hasData THEN Merged("KeyError", d, batch)
      ELSE IF ~extracted.found \/ extracted.rows = <<>> THEN Merged("none", d, batch)
      ELSE MergeRows(d, extracted.rows, subject, batch)

\* the body of the message loop of gmail_scraper.get_emails_by_subject, after
\* the message has been fetched
ProcessTableMessage(d, msg, subject, batch) ==
  LET received == IF msg.hdr.some THEN parse_email_date(msg.hdr.s) ELSE Ok(<<>>)
      extracted == extract_table_data(msg.tables)
  IN  IF msg.hdr.some /\ IsError(received) THEN Merged("none", d, batch)
      ELSE IF ~msg.hasData THEN Merged("KeyError", d, batch)
      ELSE IF ~extracted.found \/ extracted.rows = <<>> THEN Merged("none", d, batch)
      ELSE MergeRows(d, extracted.rows, subject, batch)

\* the body of the message loop of paytm_scraper.get_emails_by_subject, after
\* the message has been fetched
ProcessOrderMessage(d, msg, subject, batch) ==
  LET received == IF msg.hdr.some THEN parse_email_date(msg.hdr.s) ELSE Ok(<<>>)
      extracted == extract_order_details(msg.amount, msg.name, msg.hdr.some, received.v)
      record == ("email_subject" :> Some(subject)) @@ extracted.rec
      rid == generate_record_id(record["received_datetime"].s, record["fund_name"], subject)
  IN  IF msg.hdr.some /\ IsError(received) THEN Merged("none", d, batch)
      ELSE IF ~msg.hasData THEN Merged("KeyError", d, batch)
      ELSE IF ~extracted.found THEN Merged("none", d, batch)
      ELSE IF IsError(rid) THEN Merged(rid.err, d, batch)
      ELSE Merged("none", StoreRecord(d, rid.v, record),
                  Append(batch, ("id" :> Some(rid.v)) @@ record))

(***************************************************************************)
(* State                                                                   *)
(***************************************************************************)
VARIABLES
  env,       \* the environment: EMAIL_ME, EMAIL_MAA, EMAIL_BABA
  cfgDay,    \* the day on which config.py and the schema defaults were evaluated
  today,     \* the current day
  mailbox,   \* mailbox[src][key]: the messages of an account that match the
             \* subject of a source, for the sources that are followed
  fs,        \* the file system: resolved path -> content
  th,        \* th[t]: what thread t is executing
  count,     \* what has happened so far: HTTP requests accepted, firings of
             \* the interval job, network and disk faults, messages arrived
  response,  \* the last HTTP response sent
  hist,      \* hist[src][key]: the summary of the last finished cycle, if any
  idIn,      \* the arguments of a call of a function that is followed on its own
  idOut,     \* its result
  par        \* the document parsers: the tasks of the event loop and the run
             \* of main() that is followed

vars == <<env, cfgDay, today, mailbox, fs, th, count, response, hist, idIn, idOut, par>>

Threads == {"loop", "sched"}

\* no parser task has been created and no main() of a parser runs.  tasks:
\* the tasks asyncio.create_task has scheduled; started: those the event loop
\* has started; run: the parser whose main() is followed, runs: how many were
\* entered; pdfs, pc: the PDFs main() found and where process_single_pdf is
\* for each; busy: the PDF whose task runs its blocking part, q: the queries
\* it has been answered; failed: an exception has left main()
NoParser ==
  [tasks |-> <<>>, started |-> <<>>, run |-> "none", runs |-> 0, pdfs |-> <<>>,
   pc |-> <<>>, busy |-> 0, q |-> 0, failed |-> FALSE]

\* an optional date, as a day number
NoDate == [some |-> FALSE, d |-> 0]
Date(d) == [some |-> TRUE, d |-> d]

\* a date range that follows the clock: computed from the current day at
\* every use
ScraperDateRangeNow == [start_date |-> Date(today - 90), end_date |-> Date(today)]

\* SCRAPER_DATE_RANGE, computed when config.py is loaded
SCRAPER_DATE_RANGE == [start_date |-> Date(cfgDay - 90), end_date |-> Date(cfgDay)]

\* default_start_date(), default_end_date(): evaluated once, as the defaults of
\* the Query parameters, when the router module is loaded
default_start_date == Date(cfgDay - 365)
default_end_date == Date(cfgDay)

(***************************************************************************)
(* Files                                                                   *)
(***************************************************************************)
\* the bytes of a document: its identity and the password it is encrypted
\* with ("none" for an unencrypted one)
NoDoc == [id |-> "none", pw |-> "none"]

JsonFile(records, closed) ==
  [kind |-> "json", records |-> records, closed |-> closed, doc |-> NoDoc]
Directory == [kind |-> "dir", records |-> <<>>, closed |-> TRUE, doc |-> NoDoc]
BinaryFile(doc) == [kind |-> "binary", records |-> <<>>, closed |-> TRUE, doc |-> doc]

Exists(files, path) == path \in DOMAIN files

\* os.makedirs(path, exist_ok=True)
MakeDirs(files, path) ==
  IF Exists(files, path) THEN files ELSE (path :> Directory) @@ files

WriteFile(files, path, content) ==
  (path :> content) @@ [q \in DOMAIN files \ {path} |-> files[q]]

\* the content of a store file, for comparison: absent files are the empty,
\* never-closed content
Absent == [kind |-> "absent", records |-> <<>>, closed |-> FALSE, doc |-> NoDoc]
FileOf(files, path) == IF Exists(files, path) THEN files[path] ELSE Absent

(***************************************************************************)
(* Accounts                                                                *)
(***************************************************************************)
KnownEmail(email) == \E k \in AccountKeys : env[k] = email

\* the key under which ACCOUNTS_CONFIG["accounts"] holds an e-mail address
KeyOf(email) == CHOOSE k \in AccountKeys : env[k] = email

\* get_account_credentials(email, service_name) returns instead of raising
Configured(src, email) ==
  KnownEmail(email) /\ ServiceOfScraper(src) \in AccountServices(KeyOf(email))

\* the messages a query returns: subject and addressee select the mailbox,
\* after:/before: select by day when the bound is given
QueryResult(box, start, end) ==
  SelectSeq(box, LAMBDA m : (start.some => m.day >= start.d) /\ (end.some => m.day < end.d))

(***************************************************************************)
(* One call of get_emails_by_subject                                       *)
(***************************************************************************)
RetNone == [kind |-> "none", path |-> <<>>, err |-> "none"]
RetPath(p) == [kind |-> "path", path |-> p, err |-> "none"]


\* one call of save_attachment: its arguments, the temporary file, the
\* password it tried and how it ended
NoSave ==
  [filename |-> <<>>, data |-> [b64 |-> TRUE, pdf |-> FALSE, doc |-> NoDoc],
   temp |-> <<>>, password |-> "none", err |-> "none"]

NoCycle ==
  [active |-> FALSE, src |-> "none", email |-> <<>>, start |-> NoDate, end |-> NoDate,
   pc |-> "none", msgs |-> <<>>, i |-> 1, existing |-> <<>>, k |-> 0, ret |-> [kind |-> "pending", path |-> <<>>, err |-> "none"],
   loaded |-> <<>>, before |-> Absent, batch |-> <<>>, resp |-> [list |-> "none", fetch |-> <<>>, fault |-> FALSE], wrote |-> FALSE,
   written |-> {}, j |-> 1, saved |-> 0, sa |-> NoSave]

\* a call that has just been entered; before is the store file of the unit as
\* the call finds it
Cycle(src, email, start, end) ==
  [NoCycle EXCEPT !.active = TRUE, !.src = src, !.email = email, !.start = start,
                  !.end = end, !.pc = "query",
                  !.before = IF src \in TableSources
                               THEN FileOf(fs, NormPath(JsonFilePath(src, email)))
                             ELSE Absent]

Return(c, ret) == [c EXCEPT !.pc = "ret", !.ret = ret]

NetOutcomes == {"ok", "HttpError", "ConnectionError"}

\* the outcomes an operation can have while faults are still to come
Outcomes(all) == IF count.fault < MaxFaults THEN all ELSE {"ok"}

Faulted(o) == count' = IF o = "ok" THEN count ELSE [count EXCEPT !.fault = @ + 1]

\* a call that catches every exception and returns None
FailQuiet(c, e) == Return(c, RetNone)

\* what an exception does to the call: HttpError is caught and the call
\* returns None, anything else leaves the call
Fail(c, e) ==
  Return(c, IF e = "HttpError" THEN RetNone
            ELSE [kind |-> "raise", path |-> <<>>, err |-> e])

InCycle(t, pc) == th[t].cyc.active /\ th[t].cyc.pc = pc

\* get_gmail_service(...) and service.users().messages().list(...).execute()
CycQuery(t) ==
  /\ InCycle(t, "query")
  /\ LET c == th[t].cyc
     IN  IF ~Configured(c.src, c.email)
           THEN th' = [th EXCEPT ![t].cyc = Fail(c, "ValueError")] /\ count' = count
         ELSE \E o \in Outcomes(NetOutcomes) :
                /\ Faulted(o)
                /\ IF o = "ok"
                     THEN LET msgs == QueryResult(mailbox[c.src][KeyOf(c.email)],
                                                  c.start, c.end)
                          IN  th' = [th EXCEPT ![t].cyc =
                                       [c EXCEPT !.pc = "load", !.msgs = msgs,
                                                 !.resp.list = "ok"]]
                   ELSE th' = [th EXCEPT ![t].cyc = Fail([c EXCEPT !.resp.list = o], o)]
  /\ UNCHANGED <<env, cfgDay, today, mailbox, fs, response, hist, idIn, idOut, par>>

\* os.makedirs(output_dir); load transactions.json when it exists
CycLoad(t) ==
  /\ InCycle(t, "load") /\ th[t].cyc.src \in TableSources
  /\ LET c == th[t].cyc
         path == NormPath(JsonFilePath(c.src, c.email))
         files == MakeDirs(fs, NormPath(OutputDir(c.src, c.email)))
     IN  /\ fs' = files
         /\ IF Exists(files, path) /\ ~files[path].closed
              THEN th' = [th EXCEPT ![t].cyc = Fail(c, "JSONDecodeError")]
            ELSE LET d == IF Exists(files, path)
                            THEN LoadRecords(JsonLoad(files[path].records), <<>>) ELSE <<>>
                 IN  th' = [th EXCEPT ![t].cyc =
                              [c EXCEPT !.pc = "msg", !.existing = d, !.loaded = d]]
  /\ UNCHANGED <<env, cfgDay, today, mailbox, count, response, hist, idIn, idOut, par>>

\* the body of the message loop for one source
ProcessMessage(src, d, msg, batch) ==
  IF src = "zerodha" THEN ProcessTableMessage(d, msg, SubjectSubstring(src), batch)
  ELSE ProcessOrderMessage(d, msg, SubjectSubstring(src), batch)

\* a message loop that writes the store file after every message
CycMessageSaving(t) ==
  /\ InCycle(t, "msg") /\ th[t].cyc.src \in TableSources
  /\ th[t].cyc.i <= Len(th[t].cyc.msgs)
  /\ LET c == th[t].cyc
         m == ProcessMessage(c.src, c.existing, c.msgs[c.i], c.batch)
     IN  /\ fs' = IF m.d = <<>> THEN fs
                  ELSE WriteFile(fs, NormPath(JsonFilePath(c.src, c.email)),
                                 JsonFile(JsonDump(Values(m.d)), TRUE))
         /\ th' = [th EXCEPT ![t].cyc =
                     IF m.err # "none" THEN Fail(c, m.err)
                     ELSE [c EXCEPT !.i = c.i + 1, !.existing = m.d, !.batch = m.batch,
                                    !.resp.fetch = Append(@, "ok")]]
  /\ UNCHANGED <<env, cfgDay, today, mailbox, count, response, hist, idIn, idOut, par>>

\* one iteration of "for message in messages": fetch the message, then the body
CycMessage(t) ==
  /\ InCycle(t, "msg") /\ th[t].cyc.src \in TableSources
  /\ th[t].cyc.i <= Len(th[t].cyc.msgs)
  /\ LET c == th[t].cyc
     IN  \E o \in Outcomes(NetOutcomes) :
           LET c1 == [c EXCEPT !.resp.fetch = Append(@, o)]
           IN  /\ Faulted(o)
               /\ IF o # "ok" THEN th' = [th EXCEPT ![t].cyc = Fail(c1, o)]
                  ELSE \E m \in {ProcessMessage(c.src, c.existing, c.msgs[c.i], c.batch)} :
                         IF m.err # "none" THEN th' = [th EXCEPT ![t].cyc = Fail(c1, m.err)]
                         ELSE th' = [th EXCEPT ![t].cyc =
                                       [c1 EXCEPT !.i = c.i + 1, !.existing = m.d,
                                                  !.batch = m.batch]]
  /\ UNCHANGED <<env, cfgDay, today, mailbox, fs, response, hist, idIn, idOut, par>>

\* the write-back without the test "if existing_data:"
CycSaveAlways(t) ==
  /\ InCycle(t, "msg") /\ th[t].cyc.src \in TableSources
  /\ th[t].cyc.i > Len(th[t].cyc.msgs)
  /\ fs' = WriteFile(fs, NormPath(JsonFilePath(th[t].cyc.src, th[t].cyc.email)),
                     JsonFile(<<>>, FALSE))
  /\ th' = [th EXCEPT ![t].cyc.pc = "dump", ![t].cyc.k = 0, ![t].cyc.wrote = TRUE]
  /\ UNCHANGED <<env, cfgDay, today, mailbox, count, response, hist, idIn, idOut, par>>

\* a write-back that does not wait for the end of the message loop
CycSaveEarly(t) ==
  /\ InCycle(t, "msg") /\ th[t].cyc.src \in TableSources
  /\ th[t].cyc.existing # <<>>
  /\ fs' = WriteFile(fs, NormPath(JsonFilePath(th[t].cyc.src, th[t].cyc.email)),
                     JsonFile(<<>>, FALSE))
  /\ th' = [th EXCEPT ![t].cyc.pc = "dump", ![t].cyc.k = 0, ![t].cyc.wrote = TRUE]
  /\ UNCHANGED <<env, cfgDay, today, mailbox, count, response, hist, idIn, idOut, par>>

\* "if existing_data:" after the loop; open(json_file_path, 'w') truncates,
\* or fails and leaves the file alone
CycSave(t) ==
  /\ InCycle(t, "msg") /\ th[t].cyc.src \in TableSources
  /\ th[t].cyc.i > Len(th[t].cyc.msgs)
  /\ LET c == th[t].cyc
         path == NormPath(JsonFilePath(c.src, c.email))
     IN  IF c.existing # <<>>
           THEN \E o \in Outcomes({"ok", "OSError"}) :
                  Faulted(o) /\ IF o = "ok"
                    THEN /\ fs' = WriteFile(fs, path, JsonFile(<<>>, FALSE))
                         /\ th' = [th EXCEPT ![t].cyc =
                                      [c EXCEPT !.pc = "dump", !.k = 0, !.wrote = TRUE,
                                                !.written = @ \cup {path}]]
                  ELSE /\ fs' = fs
                       /\ th' = [th EXCEPT ![t].cyc =
                                    Fail([c EXCEPT !.resp.fault = TRUE], o)]
         ELSE /\ fs' = fs /\ count' = count
              /\ th' = [th EXCEPT ![t].cyc = Return(c, RetNone)]
  /\ UNCHANGED <<env, cfgDay, today, mailbox, response, hist, idIn, idOut, par>>

\* json.dump streams the array to the file; a write may fail (disk full)
CycDump(t) ==
  /\ InCycle(t, "dump")
  /\ th[t].cyc.k < Len(th[t].cyc.existing)
  /\ LET c == th[t].cyc
         path == NormPath(JsonFilePath(c.src, c.email))
     IN  \E o \in Outcomes({"ok", "OSError"}) :
           Faulted(o) /\ IF o = "ok"
             THEN /\ fs' = WriteFile(fs, path,
                                     JsonFile(Append(FileOf(fs, path).records,
                                                     JsonDump(Values(c.existing))[c.k + 1]),
                                              FALSE))
                  /\ th' = [th EXCEPT ![t].cyc.k = c.k + 1]
           ELSE /\ fs' = fs
                /\ th' = [th EXCEPT ![t].cyc = Fail([c EXCEPT !.resp.fault = TRUE], o)]
  /\ UNCHANGED <<env, cfgDay, today, mailbox, response, hist, idIn, idOut, par>>

\* the end of the with block: the array is closed, the file is complete
CycClose(t) ==
  /\ InCycle(t, "dump")
  /\ th[t].cyc.k = Len(th[t].cyc.existing)
  /\ LET c == th[t].cyc
         path == NormPath(JsonFilePath(c.src, c.email))
     IN  /\ fs' = WriteFile(fs, path, JsonFile(FileOf(fs, path).records, TRUE))
         /\ th' = [th EXCEPT ![t].cyc = Return(c, RetPath(JsonFilePath(c.src, c.email)))]
  /\ UNCHANGED <<env, cfgDay, today, mailbox, count, response, hist, idIn, idOut, par>>

(***************************************************************************)
(* Callers: refresh_data, refresh_all_scrapers and the HTTP handlers       *)
(***************************************************************************)
IdleFrame ==
  [job |-> "idle", phase |-> "none", srcs |-> <<>>, accts |-> <<>>,
   start |-> NoDate, end |-> NoDate, cyc |-> NoCycle, done |-> <<>>]


\* the body of refresh_all_scrapers starts to run in a frame
StartRefreshAll(f) ==
  [f EXCEPT !.job = "refresh_all", !.phase = "next_source", !.srcs = <<"nps", "zerodha", "paytm", "equity">>,
            !.start = SCRAPER_DATE_RANGE.start_date, !.end = SCRAPER_DATE_RANGE.end_date,
            !.done = <<>>]

\* what the scheduler's worker thread does with the job when the interval
\* elapses, had refresh_all_scrapers been a plain function: it runs its body
run_job_called == StartRefreshAll(IdleFrame)

\* what the scheduler's worker thread does with the job when the interval
\* elapses: it calls refresh_all_scrapers(); the function is a coroutine
\* function, the call builds a coroutine object that nobody awaits, and the
\* thread is done
run_job == IdleFrame

\* start_scheduler: add the interval job, start the scheduler, then
\* "await refresh_all_scrapers()" on the event loop
Startup ==
  /\ th["loop"].job = "boot"
  /\ th' = [th EXCEPT !["loop"] = StartRefreshAll(@), !["sched"] = IdleFrame]
  /\ UNCHANGED <<env, cfgDay, today, mailbox, fs, count, response, hist, idIn, idOut, par>>

\* the interval of the job elapses in the scheduler's thread
IntervalFire ==
  /\ th["sched"].job = "idle" /\ th["loop"].job \notin {"boot", "down"}
  /\ count.fire < MaxFirings
  /\ count' = [count EXCEPT !.fire = @ + 1]
  /\ th' = [th EXCEPT !["sched"] = run_job]
  /\ UNCHANGED <<env, cfgDay, today, mailbox, fs, response, hist, idIn, idOut, par>>

HttpResponse(status, kind) == [status |-> status, kind |-> kind]

\* one more request is followed: a process is followed up to the answer to
\* the request in which a call failed
Accepting == count.req < MaxRequests /\ count.fault = 0

\* POST /<source>/refresh/: refresh_data() without dates, on the event loop
PostRefresh(src) ==
  /\ src \in DOMAIN mailbox
  /\ th["loop"].job = "idle" /\ Accepting
  /\ count' = [count EXCEPT !.req = @ + 1]
  /\ th' = [th EXCEPT !["loop"] =
              [IdleFrame EXCEPT !.job = "refresh", !.phase = "next_source", !.srcs = <<src>>]]
  /\ UNCHANGED <<env, cfgDay, today, mailbox, fs, response, hist, idIn, idOut, par>>

\* GET /<source>/scrape/?email_id=...&start_date=...&end_date=...
GetScrape(src, email, start, end) ==
  /\ src \in DOMAIN mailbox
  /\ th["loop"].job = "idle" /\ Accepting
  /\ count' = [count EXCEPT !.req = @ + 1]
  /\ IF /\ src = "nps"
        /\ email # <<"s","o","u","v","i","k","j","a","n","a","1","9","9","3",
                     "@","g","m","a","i","l",".","c","o","m">>
       THEN /\ response' = HttpResponse(400, "error")
            /\ th' = th
     ELSE /\ response' = response
          /\ th' = [th EXCEPT !["loop"] =
                      [IdleFrame EXCEPT !.job = "scrape", !.phase = "cycle",
                                        !.cyc = Cycle(src, email, start, end)]]
  /\ UNCHANGED <<env, cfgDay, today, mailbox, fs, hist, idIn, idOut, par>>

\* refresh_data: read the account list of the source
BeginRefreshData(t) ==
  /\ th[t].phase = "next_source" /\ th[t].srcs # <<>>
  /\ LET keys == SourceAccounts(Head(th[t].srcs))
     IN  th' = [th EXCEPT ![t].accts = [i \in 1..Len(keys) |-> env[keys[i]]],
                          ![t].phase = "next_account"]
  /\ UNCHANGED <<env, cfgDay, today, mailbox, fs, count, response, hist, idIn, idOut, par>>

\* refresh_data: "for email in authorized_emails: try: get_emails_by_subject(...)"
BeginCycle(t) ==
  /\ th[t].phase = "next_account" /\ th[t].accts # <<>>
  /\ th' = [th EXCEPT ![t].phase = "cycle",
                      ![t].cyc = Cycle(Head(th[t].srcs), Head(th[t].accts),
                                       th[t].start, th[t].end)]
  /\ UNCHANGED <<env, cfgDay, today, mailbox, fs, count, response, hist, idIn, idOut, par>>

\* the summary of the call that has just ended: how the requests to the
\* message source ended, the messages it listed, the store file before and
\* after, how the call ended and the mapping it held in memory
Remember(c, files) ==
  IF c.src \in TableSources /\ KnownEmail(c.email)
    THEN [hist EXCEPT ![c.src][KeyOf(c.email)] =
            <<[resp |-> c.resp, msgs |-> c.msgs, before |-> c.before,
               after |-> FileOf(files, NormPath(JsonFilePath(c.src, c.email))),
               ret |-> c.ret.kind, mem |-> c.existing]>>]
  ELSE hist

\* refresh_data without its try block: an exception of the call leaves
\* refresh_data and its caller
EndCycleUncaught(t) ==
  /\ th[t].job \in {"refresh", "refresh_all"}
  /\ th[t].phase = "cycle" /\ th[t].cyc.pc = "ret"
  /\ LET c == th[t].cyc
         f == [th[t] EXCEPT !.cyc = NoCycle,
                            !.done = Append(@, [src |-> c.src, email |-> c.email,
                                                report |-> c.ret.kind])]
     IN  /\ th' = [th EXCEPT ![t] =
                     IF c.ret.kind = "raise"
                       THEN [f EXCEPT !.phase = "next_source", !.srcs = <<>>, !.accts = <<>>]
                     ELSE [f EXCEPT !.phase = "next_account", !.accts = Tail(@)]]
         /\ hist' = Remember(c, fs)
  /\ UNCHANGED <<env, cfgDay, today, mailbox, fs, count, response, idIn, idOut, par>>

\* refresh_data: the call returned or raised; print and go to the next account
EndCycle(t) ==
  /\ th[t].job \in {"refresh", "refresh_all"}
  /\ th[t].phase = "cycle" /\ th[t].cyc.pc = "ret"
  /\ LET c == th[t].cyc
     IN  /\ th' = [th EXCEPT ![t].phase = "next_account", ![t].accts = Tail(@),
                             ![t].cyc = NoCycle,
                             ![t].done = Append(@, [src |-> c.src, email |-> c.email,
                                                    report |-> c.ret.kind])]
         /\ hist' = Remember(c, fs)
  /\ UNCHANGED <<env, cfgDay, today, mailbox, fs, count, response, idIn, idOut, par>>

\* refresh_data returns when the account list is exhausted
EndRefreshData(t) ==
  /\ th[t].phase = "next_account" /\ th[t].accts = <<>>
  /\ th' = [th EXCEPT ![t].phase = "next_source", ![t].srcs = Tail(@)]
  /\ UNCHANGED <<env, cfgDay, today, mailbox, fs, count, response, hist, idIn, idOut, par>>

\* a refresh that goes to its last statements whenever a refresh_data call
\* has returned, with sources still to come
EndRefreshEarly(t) ==
  /\ th[t].phase = "next_source"
  /\ th' = [th EXCEPT ![t] = IF th[t].job = "refresh_all"
                               THEN [IdleFrame EXCEPT !.job = "tasks"] ELSE IdleFrame]
  /\ par' = IF th[t].job = "refresh_all"
              THEN [par EXCEPT !.tasks = @ \o <<"nps", "equity">>] ELSE par
  /\ response' = IF th[t].job = "refresh" THEN HttpResponse(200, "refreshed") ELSE response
  /\ UNCHANGED <<env, cfgDay, today, mailbox, fs, count, hist, idIn, idOut>>

\* the last refresh_data call returned: refresh_all_scrapers creates the
\* tasks of the two parsers and finishes, a POST /refresh/ handler answers
EndRefresh(t) ==
  /\ th[t].phase = "next_source" /\ th[t].srcs = <<>>
  /\ th' = [th EXCEPT ![t] = IF th[t].job = "refresh_all"
                               THEN [IdleFrame EXCEPT !.job = "tasks"] ELSE IdleFrame]
  /\ par' = IF th[t].job = "refresh_all"
              THEN [par EXCEPT !.tasks = @ \o <<"nps", "equity">>] ELSE par
  /\ response' = IF th[t].job = "refresh" THEN HttpResponse(200, "refreshed") ELSE response
  /\ UNCHANGED <<env, cfgDay, today, mailbox, fs, count, hist, idIn, idOut>>

\* the handler has returned: the event loop starts the next task that
\* create_task has scheduled, before it looks for a request
TaskStart(t) ==
  /\ th[t].job = "tasks" /\ par.tasks # <<>>
  /\ par' = [par EXCEPT !.tasks = Tail(@), !.started = Append(@, Head(par.tasks))]
  /\ th' = [th EXCEPT ![t] = IF Len(par.tasks) = 1 THEN IdleFrame ELSE @]
  /\ UNCHANGED <<env, cfgDay, today, mailbox, fs, count, response, hist, idIn, idOut>>

\* scrape_emails: answer from the result of get_emails_by_subject
ScrapeRespond(t) ==
  /\ th[t].job = "scrape" /\ th[t].cyc.pc = "ret"
  /\ LET c == th[t].cyc
         path == NormPath(c.ret.path)
     IN  /\ response' =
              IF c.ret.kind = "raise" THEN HttpResponse(500, "error")
              ELSE IF c.ret.kind = "none" THEN HttpResponse(200, "no data")
              ELSE IF c.src \in TableSources /\ ~(Exists(fs, path) /\ fs[path].closed)
                THEN HttpResponse(500, "error")
              ELSE IF c.src \in AttachmentSources /\ ~Exists(fs, path)
                THEN HttpResponse(200, "no data")
              ELSE HttpResponse(200, "data")
         /\ hist' = Remember(c, fs)
         /\ th' = [th EXCEPT ![t] = IdleFrame]
  /\ UNCHANGED <<env, cfgDay, today, mailbox, fs, count, idIn, idOut, par>>

(***************************************************************************)
(* The attachment sources: contract notes (equity) and pension (nps)       *)
(***************************************************************************)
Part(filename, inline, data) == [filename |-> filename, inline |-> inline, data |-> data]

\* attachment data: b64 is FALSE when the data is not valid base64, pdf is
\* FALSE when the bytes are not a PDF document
PdfData(b64, pdf, doc) == [b64 |-> b64, pdf |-> pdf, doc |-> doc]

\* a directory exists when makedirs created it or a directory below it
DirExists(files, d) ==
  \/ d = <<>> \/ d = <<"/","t","m","p">>
  \/ \E q \in DOMAIN files :
       files[q].kind = "dir" /\ (q = d \/ StartsWith(q, d \o <<"/">>))

\* the name tempfile.NamedTemporaryFile picks: one that is not in use
TempName(files) ==
  LET prefix == <<"/","t","m","p","/","t","m","p">>
  IN  prefix \o Pad2(Cardinality({q \in DOMAIN files : StartsWith(q, prefix)}))

\* equity_scraper.save_attachment: the password chosen from output_dir
ContractNotePassword(output_dir) ==
  IF Contains(env["BABA"], output_dir) THEN "CN_FILE_PASSWORD_BABA"
  ELSE IF Contains(env["MAA"], output_dir) THEN "CN_FILE_PASSWORD_MAA"
  ELSE "CN_FILE_PASSWORD_ME"

\* a save_attachment that chooses the password of either source from the
\* directory, as the contract-note one does
PasswordByDirectory(src, output_dir) ==
  IF src = "equity" THEN ContractNotePassword(output_dir)
  ELSE IF Contains(env["BABA"], output_dir) THEN "NPS_FILE_PASSWORD_BABA"
  ELSE IF Contains(env["MAA"], output_dir) THEN "NPS_FILE_PASSWORD_MAA"
  ELSE "NPS_FILE_PASSWORD_ME"

\* the password save_attachment gives to Pdf.open; nps_scraper always uses
\* os.getenv('NPS_FILE_PASSWORD_ME')
PasswordFor(src, output_dir) ==
  IF src = "equity" THEN ContractNotePassword(output_dir) ELSE "NPS_FILE_PASSWORD_ME"

\* os.makedirs(output_dir) of an attachment source
AttMkdir(t) ==
  /\ InCycle(t, "load") /\ th[t].cyc.src \in AttachmentSources
  /\ fs' = MakeDirs(fs, NormPath(OutputDir(th[t].cyc.src, th[t].cyc.email)))
  /\ th' = [th EXCEPT ![t].cyc.pc = "msg"]
  /\ UNCHANGED <<env, cfgDay, today, mailbox, count, response, hist, idIn, idOut, par>>

\* "for message in messages": fetch the next message
AttFetch(t) ==
  /\ InCycle(t, "msg") /\ th[t].cyc.src \in AttachmentSources
  /\ th[t].cyc.i <= Len(th[t].cyc.msgs)
  /\ LET c == th[t].cyc
     IN  \E o \in Outcomes(NetOutcomes) :
           Faulted(o) /\ IF o = "ok" THEN th' = [th EXCEPT ![t].cyc = [c EXCEPT !.pc = "part", !.j = 1]]
           ELSE th' = [th EXCEPT ![t].cyc = Fail(c, o)]
  /\ UNCHANGED <<env, cfgDay, today, mailbox, fs, response, hist, idIn, idOut, par>>

\* "for part in msg['payload']['parts']": skip a part that is no PDF, else
\* get its data (inline, or by one more request) and call save_attachment
AttPart(t) ==
  /\ InCycle(t, "part")
  /\ LET c == th[t].cyc
         parts == c.msgs[c.i].parts
         name == parts[c.j].filename
     IN  IF c.j > Len(parts)
           THEN th' = [th EXCEPT ![t].cyc = [c EXCEPT !.pc = "msg", !.i = c.i + 1]]
                /\ count' = count
         ELSE IF \/ Len(name) < 4
                 \/ SubSeq(name, Len(name) - 3, Len(name)) # <<".","p","d","f">>
           THEN th' = [th EXCEPT ![t].cyc.j = c.j + 1] /\ count' = count
         ELSE \E o \in (IF parts[c.j].inline THEN {"ok"} ELSE Outcomes(NetOutcomes)) :
                Faulted(o) /\ IF o = "ok"
                  THEN th' = [th EXCEPT ![t].cyc =
                                [c EXCEPT !.pc = "sa_temp",
                                          !.sa = [NoSave EXCEPT !.filename = parts[c.j].filename,
                                                                !.data = parts[c.j].data]]]
                ELSE th' = [th EXCEPT ![t].cyc = Fail(c, o)]
  /\ UNCHANGED <<env, cfgDay, today, mailbox, fs, response, hist, idIn, idOut, par>>

\* save_attachment: create the temporary file and write the decoded data;
\* invalid base64 raises before the try block is entered
SaTemp(t) ==
  /\ InCycle(t, "sa_temp")
  /\ LET c == th[t].cyc
         temp == TempName(fs)
     IN  IF ~c.sa.data.b64
           THEN /\ fs' = WriteFile(fs, temp, BinaryFile(NoDoc))
                /\ th' = [th EXCEPT ![t].cyc =
                            Fail([c EXCEPT !.sa.temp = temp, !.written = @ \cup {temp}],
                                 "binascii.Error")]
         ELSE /\ fs' = WriteFile(fs, temp, BinaryFile(c.sa.data.doc))
              /\ th' = [th EXCEPT ![t].cyc =
                          [c EXCEPT !.pc = "sa_store", !.sa.temp = temp,
                                    !.written = @ \cup {temp}]]
  /\ UNCHANGED <<env, cfgDay, today, mailbox, count, response, hist, idIn, idOut, par>>

\* save_attachment: choose the password, open the document (Pdf.open succeeds
\* on a PDF that is not encrypted or is encrypted with that password), save
\* it decrypted; on any exception write the original bytes instead
SaStore(t) ==
  /\ InCycle(t, "sa_store")
  /\ LET c == th[t].cyc
         output_dir == OutputDir(c.src, c.email)
         password == PasswordFor(c.src, output_dir)
         filepath == NormPath(PathJoin(output_dir, c.sa.filename))
         names == Split(filepath, "/")
         opens == c.sa.data.pdf /\ c.sa.data.doc.pw \in {"none", password}
         doc == IF opens THEN [c.sa.data.doc EXCEPT !.pw = "none"] ELSE c.sa.data.doc
     IN  IF DirExists(fs, JoinWith(SubSeq(names, 1, Len(names) - 1), "/"))
           THEN /\ fs' = WriteFile(fs, filepath, BinaryFile(doc))
                /\ th' = [th EXCEPT ![t].cyc =
                            [c EXCEPT !.pc = "sa_finally", !.sa.password = password,
                                      !.written = @ \cup {filepath}]]
         ELSE /\ fs' = fs
              /\ th' = [th EXCEPT ![t].cyc =
                          [c EXCEPT !.pc = "sa_finally", !.sa.password = password,
                                    !.sa.err = "FileNotFoundError"]]
  /\ UNCHANGED <<env, cfgDay, today, mailbox, count, response, hist, idIn, idOut, par>>

\* save_attachment: the finally block removes the temporary file; the caller
\* appends the path, or the exception leaves get_emails_by_subject
SaFinally(t) ==
  /\ InCycle(t, "sa_finally")
  /\ LET c == th[t].cyc
     IN  /\ fs' = [q \in DOMAIN fs \ {c.sa.temp} |-> fs[q]]
         /\ IF c.sa.err # "none"
              THEN th' = [th EXCEPT ![t].cyc = Fail(c, c.sa.err)]
            ELSE th' = [th EXCEPT ![t].cyc =
                          [c EXCEPT !.pc = "part", !.j = c.j + 1, !.saved = c.saved + 1]]
  /\ UNCHANGED <<env, cfgDay, today, mailbox, count, response, hist, idIn, idOut, par>>

\* "return output_dir if saved_files else None"
AttReturn(t) ==
  /\ InCycle(t, "msg") /\ th[t].cyc.src \in AttachmentSources
  /\ th[t].cyc.i > Len(th[t].cyc.msgs)
  /\ LET c == th[t].cyc
     IN  th' = [th EXCEPT ![t].cyc =
                  Return(c, IF c.saved > 0 THEN RetPath(OutputDir(c.src, c.email))
                            ELSE RetNone)]
  /\ UNCHANGED <<env, cfgDay, today, mailbox, fs, count, response, hist, idIn, idOut, par>>

(***************************************************************************)
(* The document parsers (parsers/nps_parser.py, parsers/zerodha_parser.py)  *)
(***************************************************************************)
\* create_output_directory(input_path): data/<source>/<email>/processed, with
\* the email that get_email_from_path takes from the part after the first
\* part named as the source
create_output_directory(src, input_path) ==
  LET parts == Split(input_path, "/")
      name == IF src = "nps" THEN <<"n","p","s">> ELSE <<"e","q","u","i","t","y">>
      idx == CHOOSE i \in 1..Len(parts) :
               parts[i] = name /\ \A j \in 1..(i - 1) : parts[j] # name
  IN  <<"d","a","t","a","/">> \o name \o <<"/">> \o parts[idx + 1]
        \o <<"/","p","r","o","c","e","s","s","e","d">>

\* output_dir / f"{pdf_file.stem}{suffix}" for the output_dir of the
\* directory of the PDF
DerivedFile(src, pdf, suffix) ==
  LET parts == Split(pdf, "/")
      file == parts[Len(parts)]
      dots == {i \in 2..Len(file) : file[i] = "."}
      stem == IF dots = {} THEN file
              ELSE SubSeq(file, 1, (CHOOSE i \in dots : \A j \in dots : j <= i) - 1)
  IN  NormPath(PathJoin(create_output_directory(
                          src, JoinWith(SubSeq(parts, 1, Len(parts) - 1), "/")),
                        stem \o suffix))

ParsedSuffix == <<"_","p","a","r","s","e","d",".","m","d">>
SummarySuffix == <<"_","s","u","m","m","a","r","y",".","j","s","o","n">>

\* the queries extract_investment_summary sends for one document: eight and
\* three for each of three schemes for a pension statement, three for a
\* contract note
NumQueries(src) == IF src = "nps" THEN 8 + 3 * 3 ELSE 3

\* the PDFs that are followed, in the order in which the directories and
\* the files are listed
PdfCandidates(src) ==
  << PathJoin(OutputDir(src, env["ME"]), <<"n",".","p","d","f">>),
     PathJoin(OutputDir(src, env["ME"]), <<"m",".","x",".","p","d","f">>),
     PathJoin(OutputDir(src, env["MAA"]), <<"n",".","p","d","f">>) >>

\* main() is entered, by the task of the service or from the command line:
\* it lists the *.pdf files of the transactions (contract_notes) directory
\* of every directory below data/nps (data/equity) and makes one task for each
ParserMain(src) ==
  /\ par.run = "none" /\ par.runs < MaxRuns
  /\ \E pdfs \in {SelectSeq(PdfCandidates(src), LAMBDA p : Exists(fs, NormPath(p)))} :
       par' = [par EXCEPT !.run = src, !.runs = @ + 1, !.pdfs = pdfs,
                          !.pc = [i \in 1..Len(pdfs) |-> "new"],
                          !.busy = 0, !.q = 0, !.failed = FALSE]
  /\ UNCHANGED <<env, cfgDay, today, mailbox, fs, th, count, response, hist, idIn, idOut>>

\* the tasks that asyncio.gather runs together with the task of PDF i: all
\* of them in nps_parser, those of the same directory in zerodha_parser,
\* whose main() goes on to the next directory when they are done and not at
\* all when one of them raised
Gathered(i) ==
  {j \in 1..Len(par.pdfs) :
     \/ par.run = "nps"
     \/ create_output_directory(par.run, par.pdfs[j])
          = create_output_directory(par.run, par.pdfs[i])}

\* a parse_pdf that sends the PDF to the document parser whatever files exist
ParsePdfAlways(i) ==
  /\ par.run # "none" /\ i \in 1..Len(par.pdfs) /\ par.pc[i] = "new" /\ par.busy = 0
  /\ \A j \in 1..(i - 1) :
       IF j \in Gathered(i) THEN par.pc[j] # "new" ELSE par.pc[j] = "done" /\ ~par.failed
  /\ fs' = MakeDirs(fs, NormPath(create_output_directory(par.run, par.pdfs[i])))
  /\ par' = [par EXCEPT !.pc[i] = "aload"]
  /\ UNCHANGED <<env, cfgDay, today, mailbox, th, count, response, hist, idIn, idOut>>

\* process_single_pdf up to its first await: create_output_directory, then
\* parse_pdf returns [] when the parsed file exists (and process_single_pdf
\* returns) and else awaits parser.aload_data
ParsePdf(i) ==
  /\ par.run # "none" /\ i \in 1..Len(par.pdfs) /\ par.pc[i] = "new" /\ par.busy = 0
  /\ \A j \in 1..(i - 1) :
       IF j \in Gathered(i) THEN par.pc[j] # "new" ELSE par.pc[j] = "done" /\ ~par.failed
  /\ fs' = MakeDirs(fs, NormPath(create_output_directory(par.run, par.pdfs[i])))
  /\ par' = [par EXCEPT !.pc[i] = IF Exists(fs, DerivedFile(par.run, par.pdfs[i], ParsedSuffix))
                                    THEN "done" ELSE "aload"]
  /\ UNCHANGED <<env, cfgDay, today, mailbox, th, count, response, hist, idIn, idOut>>

\* parser.aload_data returns documents, returns none or raises; with
\* documents parse_pdf writes the parsed file and the task goes on, without
\* an await, to the index and the queries
ParserLoaded(i) ==
  /\ par.run # "none" /\ i \in 1..Len(par.pdfs) /\ par.pc[i] = "aload" /\ par.busy = 0
  /\ \A j \in Gathered(i) : par.pc[j] # "new"
  /\ \E o \in Outcomes({"ok", "empty", "Exception"}) :
       /\ Faulted(o)
       /\ IF o = "ok"
            THEN /\ fs' = WriteFile(fs, DerivedFile(par.run, par.pdfs[i], ParsedSuffix),
                                    BinaryFile(fs[NormPath(par.pdfs[i])].doc))
                 /\ par' = [par EXCEPT !.pc[i] = "extract", !.busy = i, !.q = 0]
          ELSE fs' = fs /\ par' = [par EXCEPT !.pc[i] = "done"]
  /\ UNCHANGED <<env, cfgDay, today, mailbox, th, response, hist, idIn, idOut>>

\* VectorStoreIndex.from_documents, which asks the embedding model and may
\* raise, then extract_investment_summary: it returns None when the summary
\* file exists.  An exception ends the task; in zerodha_parser it leaves main()
ExtractSummary(i) ==
  /\ par.run # "none" /\ par.busy = i /\ par.pc[i] = "extract"
  /\ \E o \in Outcomes({"ok", "Exception"}) :
       /\ Faulted(o)
       /\ par' = IF o # "ok"
                   THEN [par EXCEPT !.pc[i] = "done", !.busy = 0,
                                    !.failed = @ \/ par.run = "equity"]
                 ELSE IF Exists(fs, DerivedFile(par.run, par.pdfs[i], SummarySuffix))
                   THEN [par EXCEPT !.pc[i] = "done", !.busy = 0]
                 ELSE [par EXCEPT !.pc[i] = "query"]
  /\ UNCHANGED <<env, cfgDay, today, mailbox, fs, th, response, hist, idIn, idOut>>

\* query_engine.query(query), then time.sleep(6): the answer, or an
\* exception that ends the task
Query(i) ==
  /\ par.run # "none" /\ par.busy = i /\ par.pc[i] = "query"
  /\ par.q < NumQueries(par.run)
  /\ \E o \in Outcomes({"ok", "Exception"}) :
       /\ Faulted(o)
       /\ par' = IF o = "ok" THEN [par EXCEPT !.q = @ + 1]
                 ELSE [par EXCEPT !.q = @ + 1, !.pc[i] = "done", !.busy = 0,
                                  !.failed = @ \/ par.run = "equity"]
  /\ UNCHANGED <<env, cfgDay, today, mailbox, fs, th, response, hist, idIn, idOut>>

\* every query is answered: the summary file is written
WriteSummary(i) ==
  /\ par.run # "none" /\ par.busy = i /\ par.pc[i] = "query"
  /\ par.q = NumQueries(par.run)
  /\ fs' = WriteFile(fs, DerivedFile(par.run, par.pdfs[i], SummarySuffix),
                     BinaryFile(fs[NormPath(par.pdfs[i])].doc))
  /\ par' = [par EXCEPT !.pc[i] = "done", !.busy = 0]
  /\ UNCHANGED <<env, cfgDay, today, mailbox, th, count, response, hist, idIn, idOut>>

\* the run is over: every task that was started has ended and main() has
\* returned or raised
ParserEnd ==
  /\ par.run # "none" /\ par.busy = 0
  /\ \A i \in 1..Len(par.pdfs) : par.pc[i] = "done" \/ (par.failed /\ par.pc[i] = "new")
  /\ par' = [par EXCEPT !.run = "none", !.pdfs = <<>>, !.pc = <<>>, !.q = 0, !.failed = FALSE]
  /\ UNCHANGED <<env, cfgDay, today, mailbox, fs, th, count, response, hist, idIn, idOut>>

\* the process stops while the tasks of a run wait or run: the tasks are
\* gone, the files stay
ParserStop ==
  /\ par.run # "none"
  /\ \E i \in 1..Len(par.pdfs) : par.pc[i] \in {"aload", "extract", "query"}
  /\ par' = [par EXCEPT !.run = "none", !.pdfs = <<>>, !.pc = <<>>, !.busy = 0, !.q = 0,
                        !.failed = FALSE]
  /\ UNCHANGED <<env, cfgDay, today, mailbox, fs, th, count, response, hist, idIn, idOut>>

(***************************************************************************)
(* The environment: data the message source may return                     *)
(***************************************************************************)
S_me == <<"m","e","@","x">>
S_maa == <<"m","a","a","@","x">>
S_baba == <<"b","a","b","a","@","x">>

D1 == <<"2","0","2","4","-","0","1","-","0","5">>
D2 == <<"2","0","2","4","-","0","1","-","0","6">>
F1 == <<"A","x"," ","F">>
F2 == <<"H","D">>
\* values of the Date header: Indian time, a zone west of UTC, a UTC time
\* that is the next year in Indian time, a text that is no date, and the
\* ISO-like form
DateHeader ==
  [ist |-> <<"0","5"," ","J","a","n"," ","2","0","2","4"," ","1","0",":","0","0",":","0","0"," ","+","0","5","3","0">>,
   west |-> <<"0","6"," ","J","a","n"," ","2","0","2","4"," ","2","3",":","3","0",":","0","0"," ","-","0","1","0","0">>,
   yearEnd |-> <<"3","1"," ","D","e","c"," ","2","0","2","3"," ","2","2",":","0","0",":","0","0"," ","+","0","0","0","0">>,
   bad |-> <<"y","e","s","t","e","r","d","a","y">>,
   isoLike |-> <<"2","0","2","4","-","0","1","-","0","5"," ","1","0",":","0","0",":","0","0"," ","+","0","5","3","0">>]
Amt500 == <<RUPEE," ","5","0","0"," ">>
NameSip == <<"A","x"," ","F"," ","S","I","P">>

TableHeaders == <<"Date", "Fund", "Amount">>

\* the mails with the subject of a table source.  Brokerage mails: one row;
\* two rows, the first with the id of the one-row mail; no table of the
\* expected style; a table without data rows; a table without the Fund
\* column; a row whose Date is no date; a Date header that does not parse.
\* Order mails: a complete one; one with the same second and fund and another
\* amount; one received at another time; one without the amount and the name
\* element; one
\* without Date header; one whose Date header does not parse
MessagesOf(src, day) ==
  LET T(hdr, tables) == Message(day, hdr, TRUE, tables, None, None, <<>>)
      O(hdr, amount, name) == Message(day, hdr, TRUE, <<>>, amount, name, <<>>)
  IN  IF src = "zerodha"
        THEN { T(Some(DateHeader.ist),
                 <<Table(TRUE, TableHeaders, <<Row(TRUE, <<D1, F1, <<"1","0","0">>>>)>>)>>),
               T(Some(DateHeader.west),
                 <<Table(FALSE, TableHeaders, <<>>),
                   Table(TRUE, TableHeaders,
                         <<Row(TRUE, <<D1, <<"A","x","F">>, <<RUPEE,"2","0","0">>>>),
                           Row(FALSE, <<D2, F2>>),
                           Row(TRUE, <<D2, F2, <<"\"","5","0","\"">>>>)>>)>>),
               T(Some(DateHeader.ist),
                 <<Table(FALSE, TableHeaders, <<Row(TRUE, <<D1, F1, <<"1","0","0">>>>)>>)>>),
               T(Some(DateHeader.ist),
                 <<Table(TRUE, TableHeaders, <<Row(FALSE, <<D1, F1, <<"1","0","0">>>>)>>)>>),
               T(None,
                 <<Table(TRUE, <<"Date", "Amount">>, <<Row(TRUE, <<D1, <<"1","0","0">>>>)>>)>>),
               T(Some(DateHeader.ist),
                 <<Table(TRUE, TableHeaders,
                         <<Row(TRUE, <<<<"s","o","o","n">>, F2, <<"5","0">>>>)>>)>>),
               T(Some(DateHeader.bad),
                 <<Table(TRUE, TableHeaders, <<Row(TRUE, <<D2, F1, <<"1","0","0">>>>)>>)>>) }
      ELSE { O(Some(DateHeader.ist), Some(Amt500), Some(NameSip)),
             O(Some(DateHeader.ist), Some(<<RUPEE,"7","0","0">>),
               Some(<<"S","I","P"," ","A","x","F">>)),
             O(Some(DateHeader.isoLike), None, Some(F2)),
             O(Some(DateHeader.west), None, None),
             O(None, Some(Amt500), Some(NameSip)),
             O(Some(DateHeader.bad), Some(Amt500), Some(NameSip)) }


\* the mails that arrive while the process runs: a one-row statement and a
\* statement whose first row has the same identifier; two orders of the same
\* second and fund; a statement whose Date header does not parse
NewMessages(src, day) ==
  IF src = "zerodha"
    THEN {m \in MessagesOf(src, day) :
            \/ m.hdr = Some(DateHeader.bad)
            \/ m.hdr.some /\ m.tables[Len(m.tables)].sig
                 /\ m.tables[Len(m.tables)].trs[1].tds[1] = D1
                 /\ m.tables[Len(m.tables)].trs[1].fund_list}
  ELSE {m \in MessagesOf(src, day) : m.hdr = Some(DateHeader.ist)}

\* a statement mail arrives; a query lists the newest message first.  An
\* arrival is independent of every step but the query of its own mailbox, so
\* it is taken between two handlers, and only while a request can read it
ArriveTable ==
  /\ count.arr < MaxArrivals
  /\ th["loop"].job = "idle" /\ Accepting
  /\ count' = [count EXCEPT !.arr = @ + 1]
  /\ \E src \in TableSources \cap DOMAIN mailbox : \E m \in NewMessages(src, today) :
       mailbox' = [mailbox EXCEPT ![src]["ME"] = <<m>> \o @]
  /\ UNCHANGED <<env, cfgDay, today, fs, th, response, hist, idIn, idOut, par>>

\* the process stops (kill, power loss): every thread ends where it is and
\* what the process held in memory is gone; the files stay as they are.  A
\* stop is followed while a store file is open for writing; at any other
\* point it leaves the files as the last step left them and nothing follows
ProcessStop ==
  /\ th["loop"].job # "down" /\ th["loop"].cyc.pc = "dump"
  /\ th' = [t \in Threads |-> [IdleFrame EXCEPT !.job = "down"]]
  /\ hist' = [src \in TableSources |-> [k \in AccountKeys |-> <<>>]]
  /\ response' = HttpResponse(0, "none")
  /\ UNCHANGED <<env, cfgDay, today, mailbox, fs, count, idIn, idOut, par>>

(***************************************************************************)
(* Specifications                                                          *)
(***************************************************************************)
Day0 == 400

DefaultEnv == [k \in AccountKeys |->
                 CASE k = "ME" -> S_me [] k = "MAA" -> S_maa [] k = "BABA" -> S_baba]

EmptyMailboxes == [src \in TableSources \cup AttachmentSources |-> [k \in AccountKeys |-> <<>>]]
EmptyFs == [q \in {} |-> Directory]

NoIdOut == Raise("not called")

\* the steps of the code that runs in a thread: refresh_data and the query
\* of get_emails_by_subject, the rest of the call for a table source, the
\* rest of the call for an attachment source
RefreshSteps(t) ==
  \/ BeginRefreshData(t) \/ BeginCycle(t) \/ CycQuery(t) \/ EndCycle(t)
  \/ EndRefreshData(t) \/ EndRefresh(t)

TableSteps(t) ==
  CycLoad(t) \/ CycMessage(t) \/ CycSave(t) \/ CycDump(t) \/ CycClose(t)

AttSteps(t) ==
  \/ AttMkdir(t) \/ AttFetch(t) \/ AttPart(t) \/ SaTemp(t) \/ SaStore(t)
  \/ SaFinally(t) \/ AttReturn(t)

\* the store file an earlier run can have left behind: none, the file a call
\* wrote that found one message, or the file of a process that stopped when
\* it had opened the file for writing
StoresOf(src) ==
  {Absent, JsonFile(<<>>, FALSE)} \cup
  { JsonFile(JsonDump(Values(ProcessMessage(src, <<>>, m, <<>>).d)), TRUE) :
      m \in {x \in MessagesOf(src, Day0 - 1) :
               /\ ProcessMessage(src, <<>>, x, <<>>).err = "none"
               /\ ProcessMessage(src, <<>>, x, <<>>).d # <<>>} }

\* a process that has started and is idle; the store and the mailbox hold
\* what earlier runs and the senders left.  The sources share no file and no
\* mailbox, so one source is followed at a time
InitCycle ==
  /\ env = DefaultEnv
  /\ cfgDay = Day0 /\ today = Day0
  /\ \E src \in TableSources :
       /\ \E box \in {<<>>} \cup {<<m>> : m \in MessagesOf(src, Day0 - 1)} :
            mailbox = [s \in {src} |-> [EmptyMailboxes[s] EXCEPT !["ME"] = box]]
       /\ \E store \in StoresOf(src) :
            fs = IF store = Absent THEN EmptyFs
                 ELSE WriteFile(MakeDirs(EmptyFs, NormPath(OutputDir(src, S_me))),
                                NormPath(JsonFilePath(src, S_me)), store)
  /\ th = [t \in Threads |-> IdleFrame]
  /\ count = [req |-> 0, fire |-> 0, fault |-> 0, arr |-> 0]
  /\ response = HttpResponse(0, "none")
  /\ hist = [src \in TableSources |-> [k \in AccountKeys |-> <<>>]]
  /\ idIn = [timestamp |-> <<>>, fund_name |-> None, subject |-> <<>>] /\ idOut = NoIdOut
  /\ par = NoParser

NextCycle ==
  \/ \E src \in TableSources : PostRefresh(src)
  \/ RefreshSteps("loop") \/ TableSteps("loop")
  \/ ArriveTable
  \/ ProcessStop

SpecCycle == InitCycle /\ [][NextCycle]_vars

(***************************************************************************)
(* The attachment vault: refreshes of the contract-note and the pension    *)
(* source                                                                  *)
(***************************************************************************)
\* the variable of the environment that holds the password of the documents
\* a source sends to an account
FilePassword(src, k) ==
  IF src = "nps" THEN "NPS_FILE_PASSWORD_ME"
  ELSE CASE k = "ME" -> "CN_FILE_PASSWORD_ME"
         [] k = "MAA" -> "CN_FILE_PASSWORD_MAA"
         [] k = "BABA" -> "CN_FILE_PASSWORD_BABA"

\* the mails with the subject of an attachment source in the mailbox of
\* account k: a document encrypted for the account; a body part and a
\* document that takes one more request; a text file and a document with a
\* password nobody has; bytes that are no PDF; data that is no base64; a
\* file name that leads out of the directory; a file name with a directory
\* that does not exist, for a document with a password nobody has; a mail
\* without parts
AttachmentMessages(src, k, day) ==
  LET M(parts) == Message(day, None, TRUE, <<>>, None, None, parts)
      n_pdf == <<"n",".","p","d","f">>
      note == PdfData(TRUE, TRUE, [id |-> "note", pw |-> FilePassword(src, k)])
      plain == PdfData(TRUE, TRUE, [id |-> "plain", pw |-> "none"])
  IN  { M(<<Part(n_pdf, TRUE, note)>>),
        M(<<Part(<<>>, TRUE, plain), Part(n_pdf, FALSE, note)>>),
        M(<<Part(<<"n",".","t","x","t">>, TRUE, plain),
            Part(n_pdf, TRUE, PdfData(TRUE, TRUE, [id |-> "foreign", pw |-> "unknown"]))>>),
        M(<<Part(n_pdf, TRUE, PdfData(TRUE, FALSE, [id |-> "junk", pw |-> "none"]))>>),
        M(<<Part(n_pdf, TRUE, PdfData(FALSE, FALSE, NoDoc))>>),
        M(<<Part(<<".",".","/",".",".","/">> \o S_me
                   \o <<"/","c","o","n","t","r","a","c","t","_","n","o","t","e","s","/">>
                   \o n_pdf, TRUE, note)>>),
        M(<<Part(<<"s","u","b","/">> \o n_pdf, TRUE,
                 PdfData(TRUE, TRUE, [id |-> "locked", pw |-> "unknown"]))>>),
        M(<<>>) }

\* a process that has started and is idle, with no file yet; one account of
\* one attachment source has at most one mail.  In the other environments
\* the address of one account is the tail of the address of another
InitVault ==
  /\ env \in {DefaultEnv, [DefaultEnv EXCEPT !["BABA"] = <<"a","@","x">>],
              [DefaultEnv EXCEPT !["BABA"] = <<"e","@","x">>]}
  /\ cfgDay = Day0 /\ today = Day0
  /\ \E src \in AttachmentSources : \E i \in 1..Len(SourceAccounts(src)) :
       \E box \in {<<>>} \cup
                  {<<m>> : m \in AttachmentMessages(src, SourceAccounts(src)[i], Day0 - 1)} :
         mailbox = [s \in {src} |->
                      [EmptyMailboxes[s] EXCEPT ![SourceAccounts(src)[i]] = box]]
  /\ fs = EmptyFs
  /\ th = [t \in Threads |-> IdleFrame]
  /\ count = [req |-> 0, fire |-> 0, fault |-> 0, arr |-> 0]
  /\ response = HttpResponse(0, "none")
  /\ hist = [src \in TableSources |-> [k \in AccountKeys |-> <<>>]]
  /\ idIn = [timestamp |-> <<>>, fund_name |-> None, subject |-> <<>>] /\ idOut = NoIdOut
  /\ par = NoParser

NextVault ==
  \/ \E src \in AttachmentSources : PostRefresh(src)
  \/ RefreshSteps("loop") \/ AttSteps("loop")

SpecVault == InitVault /\ [][NextVault]_vars

(***************************************************************************)
(* The service: startup, the interval job and the HTTP requests            *)
(***************************************************************************)
\* a process that starts.  Every account has one mail per source; the
\* statement of one account lacks the Fund column and the contract note of
\* one account is no base64, so their calls raise
InitSched ==
  /\ env = DefaultEnv
  /\ cfgDay = Day0 /\ today = Day0
  /\ mailbox =
       [src \in TableSources \cup AttachmentSources |->
          [k \in AccountKeys |->
             IF src \in TableSources
               THEN IF src = "zerodha" /\ k = "ME"
                      THEN <<CHOOSE m \in MessagesOf(src, Day0 - 1) :
                               m.tables # <<>> /\ Len(m.tables[1].ths) = 2>>
                    ELSE <<CHOOSE m \in NewMessages(src, Day0 - 1) :
                             /\ m.hdr = Some(DateHeader.ist) /\ Len(m.tables) <= 1
                             /\ m.tables = <<>> => m.amount = Some(Amt500)>>
             ELSE <<CHOOSE m \in AttachmentMessages(src, k, Day0 - 1) :
                      /\ Len(m.parts) = 1 /\ Len(m.parts[1].filename) = 5
                      /\ m.parts[1].data.b64 = (k # "BABA")
                      /\ m.parts[1].data.pdf = (k # "BABA")>>]]
  /\ fs = EmptyFs
  /\ th = [t \in Threads |-> IF t = "loop" THEN [IdleFrame EXCEPT !.job = "boot"]
                              ELSE IdleFrame]
  /\ count = [req |-> 0, fire |-> 0, fault |-> 0, arr |-> 0]
  /\ response = HttpResponse(0, "none")
  /\ hist = [src \in TableSources |-> [k \in AccountKeys |-> <<>>]]
  /\ idIn = [timestamp |-> <<>>, fund_name |-> None, subject |-> <<>>] /\ idOut = NoIdOut
  /\ par = NoParser

NextSched ==
  \/ Startup
  \/ IntervalFire
  \/ \E src \in TableSources \cup AttachmentSources : PostRefresh(src)
  \/ \E src \in TableSources \cup AttachmentSources :
       \E email \in {S_me, S_maa, <<"o","@","x">>} :
         GetScrape(src, email, default_start_date, default_end_date)
  \/ \E t \in Threads :
       RefreshSteps(t) \/ TableSteps(t) \/ AttSteps(t) \/ ScrapeRespond(t) \/ TaskStart(t)

SpecSched == InitSched /\ [][NextSched]_vars

(***************************************************************************)
(* The service over days: startup, the interval job and the clock          *)
(***************************************************************************)
\* midnight passes: datetime.now().date() is one day later from now on
DayPasses ==
  /\ today < cfgDay + MaxDays
  /\ today' = today + 1
  /\ UNCHANGED <<env, cfgDay, mailbox, fs, th, count, response, hist, idIn, idOut, par>>

\* the process of InitSched, followed without requests while days pass
NextClock ==
  \/ Startup
  \/ IntervalFire
  \/ DayPasses
  \/ \E t \in Threads : RefreshSteps(t) \/ TableSteps(t) \/ AttSteps(t) \/ TaskStart(t)

SpecClock == InitSched /\ [][NextClock]_vars

(***************************************************************************)
(* Runs of a parser over the stored PDFs                                   *)
(***************************************************************************)
\* what the vault and earlier runs of the parser have left for one PDF: its
\* directory and the PDF, and with derived files the directory of the
\* processed files and those files
StoredFiles(src, n, suffixes) ==
  { <<NormPath(OutputDir(src, env[IF n = 3 THEN "MAA" ELSE "ME"])), Directory>>,
    <<NormPath(PdfCandidates(src)[n]),
      BinaryFile([id |-> IF n = 1 THEN "note" ELSE "plain", pw |-> "none"])>> }
  \cup (IF suffixes = {} THEN {}
        ELSE { <<NormPath(create_output_directory(src, PdfCandidates(src)[n])), Directory>> })
  \cup { <<DerivedFile(src, PdfCandidates(src)[n], suffix),
           BinaryFile([id |-> IF n = 1 THEN "note" ELSE "plain", pw |-> "none"])>> :
           suffix \in suffixes }

\* a process in which no parser runs.  The vault has stored one or two PDFs
\* of one source; for each of them an earlier run has left nothing, the
\* parsed file, the parsed file and the summary, or (the parsed file having
\* been removed since) the summary alone
InitParse ==
  /\ env = DefaultEnv
  /\ cfgDay = Day0 /\ today = Day0
  /\ mailbox = EmptyMailboxes
  /\ \E src \in AttachmentSources :
       \E a, b \in 1..Len(PdfCandidates(src)) :
         \E left \in [{a, b} -> SUBSET {ParsedSuffix, SummarySuffix}] :
           \E all \in {StoredFiles(src, a, left[a]) \cup StoredFiles(src, b, left[b])} :
             fs = [q \in {x[1] : x \in all} |-> (CHOOSE x \in all : x[1] = q)[2]]
  /\ th = [t \in Threads |-> IdleFrame]
  /\ count = [req |-> 0, fire |-> 0, fault |-> 0, arr |-> 0]
  /\ response = HttpResponse(0, "none")
  /\ hist = [src \in TableSources |-> [k \in AccountKeys |-> <<>>]]
  /\ idIn = [timestamp |-> <<>>, fund_name |-> None, subject |-> <<>>] /\ idOut = NoIdOut
  /\ par = NoParser

NextParse ==
  \/ \E src \in AttachmentSources : ParserMain(src)
  \/ \E i \in 1..Len(par.pdfs) : ParsePdf(i)
  \/ \E i \in 1..Len(par.pdfs) : ParserLoaded(i)
  \/ \E i \in 1..Len(par.pdfs) : ExtractSummary(i)
  \/ \E i \in 1..Len(par.pdfs) : Query(i)
  \/ \E i \in 1..Len(par.pdfs) : WriteSummary(i)
  \/ ParserEnd
  \/ ParserStop

SpecParse == InitParse /\ [][NextParse]_vars

(***************************************************************************)
(* Properties of the load / merge / write-back cycle                       *)
(***************************************************************************)
\* the call of the event-loop thread and the store file of its unit
TheCall == th["loop"].cyc
TheStore == FileOf(fs, NormPath(JsonFilePath(TheCall.src, TheCall.email)))

\* a call of a table source that has ended
Ended == TheCall.active /\ TheCall.src \in TableSources /\ TheCall.pc = "ret"

\* a call that ended after the message loop ran to its end
RanThrough ==
  /\ Ended /\ TheCall.resp.list = "ok" /\ TheCall.i > Len(TheCall.msgs)
  /\ TheCall.ret.kind \in {"none", "path"}

IdsOf(records) == {records[i]["id"].s : i \in 1..Len(records)}

\* the last record of a sequence that carries an id
LastOf(records, id) ==
  records[CHOOSE i \in 1..Len(records) :
            records[i]["id"].s = id /\ \A j \in (i + 1)..Len(records) : records[j]["id"].s # id]

\* C7: in a call of a table source, with S the records of the store as loaded
\* and R the records extracted so far, the mapping in memory has the ids of S
\* and of R, each once; an id of R maps to the last record of R with that id,
\* an id of S that is not in R maps to its record of S; a store file the
\* call has written holds exactly the records of that mapping
C7_MergeSemantics ==
  (TheCall.active /\ TheCall.src \in TableSources /\ TheCall.pc \in {"msg", "dump", "ret"}) =>
    LET S == [i \in 1..Len(TheCall.loaded) |-> TheCall.loaded[i].v]
        R == TheCall.batch
        M == TheCall.existing
    IN  /\ {M[i].k : i \in 1..Len(M)} = IdsOf(S) \cup IdsOf(R)
        /\ \A i, j \in 1..Len(M) : M[i].k = M[j].k => i = j
        /\ \A i \in 1..Len(M) :
             /\ M[i].v["id"].s = M[i].k
             /\ M[i].v = IF M[i].k \in IdsOf(R) THEN LastOf(R, M[i].k)
                         ELSE LastOf(S, M[i].k)
        /\ (TheCall.pc = "ret" /\ TheCall.ret.kind = "path") =>
             TheStore = JsonFile(JsonDump([i \in 1..Len(M) |-> M[i].v]), TRUE)

\* a call has written a store in which one stored record was replaced, one
\* was kept, and two extracted records had the same id
C7_Witness ==
  /\ Ended /\ TheCall.ret.kind = "path"
  /\ Len(TheCall.batch) > Cardinality(IdsOf(TheCall.batch))
  /\ \E i \in 1..Len(TheCall.loaded) :
       /\ TheCall.loaded[i].k \in IdsOf(TheCall.batch)
       /\ TheCall.loaded[i].v # LastOf(TheCall.batch, TheCall.loaded[i].k)
  /\ \E i \in 1..Len(TheCall.loaded) : TheCall.loaded[i].k \notin IdsOf(TheCall.batch)

\* C10: a call of a table source opens the store file for writing only with
\* a non-empty mapping; a call whose message loop ran to its end writes the
\* file exactly when the mapping is non-empty and returns the path exactly
\* when it wrote; when it does not write the file is as the call found it,
\* so without a store and without an extracted record there is no store
\* file afterwards and the call returns None
C10_WriteIffNonEmpty ==
  (TheCall.active /\ TheCall.src \in TableSources) =>
    /\ TheCall.wrote => TheCall.existing # <<>>
    /\ RanThrough =>
         /\ TheCall.wrote <=> TheCall.existing # <<>>
         /\ TheCall.ret.kind = "path" <=> TheCall.wrote
         /\ ~TheCall.wrote => TheStore = TheCall.before
         /\ (TheCall.before = Absent /\ TheCall.batch = <<>>) =>
              TheStore = Absent /\ TheCall.ret.kind = "none"

\* a call that found no store, read a message and extracted nothing from it
C10_Witness ==
  /\ RanThrough /\ TheCall.before = Absent /\ TheCall.batch = <<>>
  /\ Len(TheCall.msgs) > 0 /\ TheStore = Absent /\ TheCall.ret.kind = "none"

\* the summary of the call that ran before this one for the same unit
Earlier == hist[TheCall.src][KeyOf(TheCall.email)]

\* the call is the second of two calls for one unit that ran in succession
\* and got the same answers from the message source
Repeated ==
  /\ Ended /\ KnownEmail(TheCall.email) /\ Earlier # <<>>
  /\ Earlier[1].after = TheCall.before
  /\ Earlier[1].resp = TheCall.resp /\ Earlier[1].msgs = TheCall.msgs

\* C1: when a call of a table source has ended, and the call before it for
\* the same unit got the same answers from the message source and left the
\* store file this call found, then the store file is as that call left it:
\* the same records in the same order
C1_Idempotent == Repeated => TheStore = Earlier[1].after

\* the second of two such calls, each of which extracted records and wrote
\* the store, the first one changing it
C1_Witness ==
  /\ Repeated /\ TheCall.wrote /\ TheCall.batch # <<>> /\ TheCall.ret.kind = "path"
  /\ Earlier[1].before # Earlier[1].after

\* the call is the second of two calls for one unit that ran in succession,
\* neither failed, and the message source listed one more message, the
\* newest, to the second
OneMore ==
  /\ RanThrough /\ KnownEmail(TheCall.email) /\ Earlier # <<>>
  /\ Earlier[1].after = TheCall.before
  /\ Earlier[1].ret \in {"none", "path"} /\ Earlier[1].resp.list = "ok"
  /\ \A i \in 1..Len(Earlier[1].resp.fetch) : Earlier[1].resp.fetch[i] = "ok"
  /\ \A i \in 1..Len(TheCall.resp.fetch) : TheCall.resp.fetch[i] = "ok"
  /\ TheCall.msgs # <<>> /\ Tail(TheCall.msgs) = Earlier[1].msgs

\* C2 as stated: after the second of two such calls the store has exactly
\* one record more than after the first, and every record of the first
\* store is in it unchanged
C2_ExactlyOneMore ==
  OneMore =>
    LET old == JsonLoad(Earlier[1].after.records)
        new == JsonLoad(TheStore.records)
    IN  /\ Len(new) = Len(old) + 1
        /\ \A i \in 1..Len(old) : \E j \in 1..Len(new) : new[j] = old[i]

\* C2, amended: after the second of two such calls the store holds the ids
\* of the first store and the ids of the records extracted from the new
\* message, each id once, so it has between N and N + r records for a
\* message with r rows; a record of the first store whose id the new
\* message does not produce is in it unchanged
C2_IdsKeptAndAdded ==
  OneMore =>
    LET old == JsonLoad(Earlier[1].after.records)
        new == JsonLoad(TheStore.records)
        got == ProcessMessage(TheCall.src, <<>>, Head(TheCall.msgs), <<>>).batch
    IN  /\ IdsOf(new) = IdsOf(old) \cup IdsOf(got)
        /\ Len(new) = Cardinality(IdsOf(new))
        /\ Len(new) >= Len(old) /\ Len(new) <= Len(old) + Len(got)
        /\ \A i \in 1..Len(old) :
             old[i]["id"].s \notin IdsOf(got) => \E j \in 1..Len(new) : new[j] = old[i]

\* the new message had two rows: one replaced a stored record that no
\* listed message produces, the other added a record
C2_Witness ==
  /\ OneMore /\ Len(TheStore.records) = Len(Earlier[1].after.records) + 1
  /\ \E i \in 1..Len(Earlier[1].after.records) :
       \A j \in 1..Len(TheStore.records) :
         TheStore.records[j] # Earlier[1].after.records[i]

\* C11: the store file a call has written loads to the mapping the call
\* held in memory when it wrote, and the next call for the unit, when it
\* finds the file as that call left it, loads a mapping with the same ids
\* and, for every id, the same fields with the same content
C11_StoreRoundTrip ==
  /\ (Ended /\ TheCall.ret.kind = "path") =>
       LoadRecords(JsonLoad(TheStore.records), <<>>) = TheCall.existing
  /\ (/\ TheCall.active /\ TheCall.src \in TableSources
      /\ TheCall.pc \in {"msg", "dump", "ret"} /\ TheCall.resp.list = "ok"
      /\ KnownEmail(TheCall.email) /\ Earlier # <<>>
      /\ Earlier[1].ret = "path" /\ Earlier[1].after = TheCall.before) =>
       LET M == Earlier[1].mem
           L == TheCall.loaded
       IN  /\ {L[i].k : i \in 1..Len(L)} = {M[i].k : i \in 1..Len(M)}
           /\ \A i \in 1..Len(L) : \A j \in 1..Len(M) :
                L[i].k = M[j].k => L[i].v = M[j].v

\* the second call for a unit has loaded the two records the first call
\* wrote; a field of one holds a quote, a field of the other a character
\* beyond ASCII
C11_Witness ==
  /\ TheCall.active /\ TheCall.src = "zerodha" /\ TheCall.pc = "msg" /\ Earlier # <<>>
  /\ Earlier[1].ret = "path" /\ Earlier[1].after = TheCall.before
  /\ Len(TheCall.loaded) = 2
  /\ \E i, j \in 1..2 :
       /\ \E n \in 1..Len(TheCall.loaded[i].v["Amount"].s) :
            TheCall.loaded[i].v["Amount"].s[n] = "\""
       /\ \E n \in 1..Len(TheCall.loaded[j].v["Amount"].s) :
            TheCall.loaded[j].v["Amount"].s[n] = RUPEE

\* the body of a message whose Date header is no obstacle lacks what the
\* source expects: the table of the fixed style, or the amount and the name
\* element
Mismatch(src, m) ==
  /\ m.hasData /\ (m.hdr.some => ~IsError(parse_email_date(m.hdr.s)))
  /\ IF src = "zerodha" THEN \A n \in 1..Len(m.tables) : ~m.tables[n].sig
     ELSE ~m.amount.some /\ ~m.name.some

\* C12 as stated: a message whose body lacks the expected table or the
\* expected amount and name elements adds no record to the mapping and does
\* not end the call: a call never raises at such a message, and a call
\* whose message loop ran to its end has gone past it and written back what
\* the other messages gave
C12_MismatchSkipped ==
  (TheCall.active /\ TheCall.src \in TableSources /\ TheCall.resp.list = "ok") =>
    /\ \A n \in 1..Len(TheCall.msgs) :
         Mismatch(TheCall.src, TheCall.msgs[n]) =>
           ProcessMessage(TheCall.src, TheCall.existing, TheCall.msgs[n], TheCall.batch)
             = Merged("none", TheCall.existing, TheCall.batch)
    /\ (/\ TheCall.pc = "ret" /\ TheCall.ret.kind = "raise"
        /\ TheCall.i <= Len(TheCall.msgs) /\ Len(TheCall.resp.fetch) = TheCall.i
        /\ TheCall.resp.fetch[TheCall.i] = "ok") =>
         ~Mismatch(TheCall.src, TheCall.msgs[TheCall.i])

\* the Date header of a message is there and parse_email_date raises on it
BadDate(m) == m.hdr.some /\ IsError(parse_email_date(m.hdr.s))

\* C13: a message whose Date header parse_email_date cannot parse adds no
\* record to the mapping and does not end the call: a call never raises at
\* such a message, and when the message loop has run to its end the mapping
\* is what the loop gives for the other messages alone, in their order
C13_BadDateSkipped ==
  (TheCall.active /\ TheCall.src \in TableSources /\ TheCall.resp.list = "ok") =>
    /\ \A n \in 1..Len(TheCall.msgs) :
         BadDate(TheCall.msgs[n]) =>
           ProcessMessage(TheCall.src, TheCall.existing, TheCall.msgs[n], TheCall.batch)
             = Merged("none", TheCall.existing, TheCall.batch)
    /\ (/\ TheCall.pc = "ret" /\ TheCall.ret.kind = "raise"
        /\ TheCall.i <= Len(TheCall.msgs) /\ Len(TheCall.resp.fetch) = TheCall.i
        /\ TheCall.resp.fetch[TheCall.i] = "ok") =>
         ~BadDate(TheCall.msgs[TheCall.i])
    /\ RanThrough =>
         LET RECURSIVE Loop(_, _)
             Loop(ms, m) ==
               IF ms = <<>> THEN m
               ELSE Loop(Tail(ms), ProcessMessage(TheCall.src, m.d, Head(ms), m.batch))
             others == SelectSeq(TheCall.msgs, LAMBDA m : ~BadDate(m))
         IN  Loop(others, Merged("none", TheCall.loaded, <<>>))
               = Merged("none", TheCall.existing, TheCall.batch)

\* the newest of two listed messages has a Date header that does not parse;
\* the call went on to the other message, took its record and wrote the store
C13_Witness ==
  /\ RanThrough /\ Len(TheCall.msgs) = 2 /\ BadDate(TheCall.msgs[1])
  /\ ~BadDate(TheCall.msgs[2]) /\ Len(TheCall.batch) = 1
  /\ TheCall.wrote /\ TheCall.ret.kind = "path"

\* C18: a call of a table source goes through its steps in one order: the
\* query, the load, the messages one at a time in the order the query
\* listed them, then the write-back, then the return.  The store file
\* changes only when every listed message has been processed, it is opened
\* for writing at most once in a call, and after that it only grows by the
\* records of the mapping, in order, until it is closed
C18_StepsInOrder ==
  [][ LET c == TheCall
          d == th'["loop"].cyc
          path == NormPath(JsonFilePath(c.src, c.email))
          f == FileOf(fs, path)
          g == FileOf(fs', path)
          order == [query |-> {"query", "load", "ret"}, load |-> {"load", "msg", "ret"},
                    msg |-> {"msg", "dump", "ret"}, dump |-> {"dump", "ret"},
                    ret |-> {"ret"}]
      IN  (c.active /\ d.active /\ c.src \in TableSources) =>
            /\ d.pc \in order[c.pc]
            /\ d.msgs # c.msgs => c.pc = "query"
            /\ d.i \in {c.i, c.i + 1}
            /\ d.i = c.i + 1 =>
                 /\ c.pc = "msg" /\ c.i <= Len(c.msgs)
                 /\ d.resp.fetch = Append(c.resp.fetch, "ok")
                 /\ ProcessMessage(c.src, c.existing, c.msgs[c.i], c.batch)
                      = Merged("none", d.existing, d.batch)
            /\ d.existing # c.existing => c.pc \in {"load", "msg"} /\ d.pc # "dump"
            /\ g # f =>
                 /\ c.i > Len(c.msgs) /\ Len(c.resp.fetch) = Len(c.msgs)
                 /\ IF c.pc = "msg" THEN ~c.wrote /\ d.wrote /\ g = JsonFile(<<>>, FALSE)
                    ELSE /\ c.pc = "dump" /\ c.wrote /\ ~f.closed
                         /\ \/ g = JsonFile(f.records, TRUE)
                                  /\ f.records = JsonDump(Values(c.existing))
                            \/ g = JsonFile(Append(f.records,
                                                   JsonDump(Values(c.existing))[Len(f.records) + 1]),
                                            FALSE)
    ]_vars

\* a call that listed two messages has processed both, has opened the store
\* file and has written the first of two records
C18_Witness ==
  /\ TheCall.active /\ TheCall.src \in TableSources /\ TheCall.pc = "dump"
  /\ Len(TheCall.msgs) = 2 /\ TheCall.i = 3 /\ TheCall.resp.fetch = <<"ok", "ok">>
  /\ Len(TheCall.existing) = 2 /\ Len(TheStore.records) = 1 /\ ~TheStore.closed

\* C19: a call of a table source that has ended without opening the store
\* file for writing, because the query failed, a message could not be
\* fetched or an exception left the message loop, has left the store file
\* exactly as it found it, without the records the call had extracted
C19_FailureLeavesStore ==
  (/\ Ended /\ ~TheCall.wrote
   /\ \/ TheCall.ret.kind = "raise"
      \/ TheCall.resp.list \in {"HttpError", "ConnectionError"}
      \/ \E n \in 1..Len(TheCall.resp.fetch) : TheCall.resp.fetch[n] # "ok") =>
    TheStore = TheCall.before

\* a call found a store, took a record from the first of two messages and
\* ended with an exception at the second; the store file is as it was
C19_Witness ==
  /\ Ended /\ ~TheCall.wrote /\ TheCall.ret.kind = "raise"
  /\ Len(TheCall.msgs) = 2 /\ TheCall.i = 2 /\ TheCall.resp.fetch = <<"ok", "ok">>
  /\ TheCall.batch # <<>> /\ TheCall.existing # TheCall.loaded
  /\ TheCall.before.closed /\ TheStore = TheCall.before

\* a statement whose body is processed and in which a row of the table has no
\* Date or no Fund field, or a Date that generate_record_id cannot parse
HasBadRow(m) ==
  /\ ~BadDate(m) /\ m.hasData
  /\ LET ex == extract_table_data(m.tables)
     IN  /\ ex.found
         /\ \E n \in 1..Len(ex.rows) :
              \/ "Date" \notin DOMAIN ex.rows[n] \/ "Fund" \notin DOMAIN ex.rows[n]
              \/ IsError(generate_record_id(ex.rows[n]["Date"], Some(ex.rows[n]["Fund"]),
                                            SubjectSubstring("zerodha")))

\* the call of the brokerage source fetched a statement with such a row
AtBadRow ==
  /\ TheCall.active /\ TheCall.src = "zerodha" /\ TheCall.resp.list = "ok"
  /\ TheCall.i <= Len(TheCall.msgs) /\ Len(TheCall.resp.fetch) = TheCall.i
  /\ TheCall.resp.fetch[TheCall.i] = "ok" /\ HasBadRow(TheCall.msgs[TheCall.i])

\* C26: a call of the brokerage source never goes on past a statement with
\* such a row: the call ends there with an exception, has not written, and
\* the store file is as the call found it, whatever records the call took
\* from the statements before; refresh_data then reports the error for the
\* account and goes on to the next account of its list, and leaves the files
\* as they are
C26_BadRowEndsCycle ==
  [][ /\ (TheCall.active /\ TheCall.src = "zerodha") =>
           \A n \in 1..Len(TheCall.msgs) : n < TheCall.i => ~HasBadRow(TheCall.msgs[n])
      /\ AtBadRow =>
           /\ TheCall.pc = "ret" /\ TheCall.ret.kind = "raise"
           /\ ~TheCall.wrote /\ TheStore = TheCall.before
           /\ (th["loop"].job = "refresh" /\ th'["loop"] # th["loop"]) =>
                /\ th'["loop"].job = "refresh" /\ th'["loop"].phase = "next_account"
                /\ th'["loop"].srcs = th["loop"].srcs
                /\ th'["loop"].accts = Tail(th["loop"].accts)
                /\ th'["loop"].done =
                     Append(th["loop"].done, [src |-> TheCall.src, email |-> TheCall.email,
                                              report |-> "raise"])
                /\ fs' = fs
    ]_vars

\* the refresh of the brokerage source found a store; the call of the first
\* account took a record from the newest statement and ended at the second,
\* whose table has no Fund column or a Date that is no date; the store file
\* is as it was and the second account is still to come
C26_Witness ==
  /\ AtBadRow /\ TheCall.pc = "ret" /\ TheCall.i = 2 /\ TheCall.batch # <<>>
  /\ TheCall.before.closed /\ TheStore = TheCall.before
  /\ th["loop"].job = "refresh" /\ Len(th["loop"].accts) = 2

\* C22: no store file holds two records with the same id, and at every
\* step of a call every entry of the mapping in memory has the id of its
\* record as its key, each key once; a row that an earlier call has stored
\* and this call extracts again has one entry
C22_UniqueIds ==
  /\ \A src \in TableSources : \A k \in AccountKeys :
       LET recs == FileOf(fs, NormPath(JsonFilePath(src, env[k]))).records
       IN  \A i, j \in 1..Len(recs) : recs[i]["id"] = recs[j]["id"] => i = j
  /\ (TheCall.active /\ TheCall.src \in TableSources) =>
       LET M == TheCall.existing
       IN  /\ \A i \in 1..Len(M) : M[i].v["id"] = Some(M[i].k)
           /\ \A i, j \in 1..Len(M) : M[i].k = M[j].k => i = j
           /\ \A n \in 1..Len(TheCall.batch) :
                Cardinality({i \in 1..Len(M) : Some(M[i].k) = TheCall.batch[n]["id"]}) = 1

\* a call has extracted the row an earlier call had stored and has written
\* the store: it holds the one record it held before
C22_Witness ==
  /\ Ended /\ TheCall.ret.kind = "path" /\ Len(TheCall.loaded) = 1
  /\ Len(TheCall.batch) = 1 /\ TheCall.batch[1]["id"] = Some(TheCall.loaded[1].k)
  /\ Len(TheStore.records) = 1 /\ TheStore.closed
  /\ Earlier # <<>> /\ Earlier[1].ret = "path"

\* the store files of the table sources are absent or complete
\* the ids a store file holds for the next call that loads it: those of its
\* records when it is a complete JSON array, none when it is absent or partial
StoredIds(f) == IF f.kind = "json" /\ f.closed THEN IdsOf(JsonLoad(f.records)) ELSE {}

\* C25: when a call of a table source has ended, by a return or by an
\* exception, every id the store file held when the call loaded it is in
\* the store file
C25_IdsNeverLost ==
  Ended => StoredIds(TheCall.before) \subseteq StoredIds(TheStore)

StoresComplete(files) ==
  \A src \in TableSources : \A k \in AccountKeys :
    LET f == FileOf(files, NormPath(JsonFilePath(src, env[k])))
    IN  f = Absent \/ f.closed

\* C5 as stated: no step, a stop of the process included, leaves a store
\* file partial that was absent or complete before it, and from the moment
\* a call has loaded the file, each step leaves the file as the call found
\* it or holding the complete store after the merge
C5_NeverPartial ==
  [][ /\ StoresComplete(fs) => StoresComplete(fs')
      /\ (TheCall.active /\ TheCall.src \in TableSources /\ TheCall.pc \in {"msg", "dump"}) =>
           LET f == FileOf(fs', NormPath(JsonFilePath(TheCall.src, TheCall.email)))
           IN  \/ f = TheCall.before
               \/ f = JsonFile(JsonDump([i \in 1..Len(TheCall.existing) |->
                                            TheCall.existing[i].v]), TRUE)
    ]_vars

(***************************************************************************)
(* Properties of the attachment vault                                      *)
(***************************************************************************)
\* the directory of another account of the source of the call
OthersDirs ==
  { NormPath(OutputDir(TheCall.src, env[k])) :
      k \in {x \in AccountKeys : /\ \E i \in 1..Len(SourceAccounts(TheCall.src)) :
                                      SourceAccounts(TheCall.src)[i] = x
                                 /\ env[x] # TheCall.email} }

\* C3 as stated: no file a call creates or overwrites lies in the output
\* directory of another account of the same source, and none is the store
\* file of another account
C3_AccountIsolation ==
  TheCall.active =>
    \A p \in TheCall.written : \A d \in OthersDirs : ~StartsWith(p, d \o <<"/">>)

\* C8 as stated: when the contract-note save_attachment has chosen its
\* password for a file of the directory of a registered account, it has
\* chosen the password configured for that account
C8_OwnPassword ==
  (TheCall.active /\ TheCall.src = "equity" /\ TheCall.pc = "sa_finally") =>
    \A k \in AccountKeys :
      env[k] = TheCall.email =>
        TheCall.sa.password = (CASE k = "ME" -> "CN_FILE_PASSWORD_ME"
                                 [] k = "MAA" -> "CN_FILE_PASSWORD_MAA"
                                 [] k = "BABA" -> "CN_FILE_PASSWORD_BABA")

\* C16 as stated: when save_attachment has been given bytes that Pdf.open
\* does not open with the password it chose, it reaches its end without an
\* exception and the file output_dir/filename holds the decoded bytes as
\* they came
C16_FallbackKeepsBytes ==
  (/\ TheCall.active /\ TheCall.src \in AttachmentSources /\ TheCall.pc = "sa_finally"
   /\ TheCall.sa.data.b64
   /\ ~(TheCall.sa.data.pdf /\ TheCall.sa.data.doc.pw \in {"none", TheCall.sa.password})) =>
    /\ TheCall.sa.err = "none"
    /\ FileOf(fs, NormPath(PathJoin(OutputDir(TheCall.src, TheCall.email),
                                    TheCall.sa.filename)))
         = BinaryFile(TheCall.sa.data.doc)

\* C21 as stated: outside save_attachment, that is before it is entered and
\* after it has returned or raised, no temporary file of save_attachment
\* exists
C21_TempFileRemoved ==
  (TheCall.active /\ TheCall.src \in AttachmentSources
     /\ TheCall.pc \in {"query", "load", "msg", "part", "ret"}) =>
    \A q \in DOMAIN fs : ~StartsWith(q, <<"/","t","m","p","/">>)

InWindow(t) ==
  th[t].cyc.active /\ th[t].cyc.src \in TableSources /\ th[t].cyc.pc \in {"msg", "dump"}

\* C4: whatever started them (startup, the interval job, POST /refresh/,
\* GET /scrape/), no two calls for the same source and account are between
\* load and write-back at the same time, and from the moment a call is
\* entered until it opens the store file for writing the file is as the
\* call found it: no other call has written it
C4_NoConcurrentCycles ==
  /\ \A t1, t2 \in Threads :
       (t1 # t2 /\ InWindow(t1) /\ InWindow(t2)) =>
         ~(th[t1].cyc.src = th[t2].cyc.src /\ th[t1].cyc.email = th[t2].cyc.email)
  /\ \A t \in Threads :
       (th[t].cyc.active /\ th[t].cyc.src \in TableSources
          /\ th[t].cyc.pc \in {"query", "load", "msg"}) =>
         FileOf(fs, NormPath(JsonFilePath(th[t].cyc.src, th[t].cyc.email))) = th[t].cyc.before

\* after the startup refresh the interval has fired and a request is served:
\* its call is writing a store it loaded
C4_Witness ==
  /\ count.fire > 0 /\ count.req > 0
  /\ InWindow("loop") /\ TheCall.pc = "dump" /\ TheCall.loaded # <<>>

\* C14 as stated: when the request that lists the messages has failed, the
\* caller of the call does not see what it sees when nothing was found:
\* refresh_data reports an error for the unit, and GET /scrape/ does not
\* answer with its "nothing found" message
C14_QueryFailureReported ==
  [][ \A t \in Threads :
        (/\ th[t].cyc.active /\ th[t].cyc.pc = "ret"
         /\ th[t].cyc.resp.list \in {"HttpError", "ConnectionError"}
         /\ ~th'[t].cyc.active) =>
          IF th[t].job = "scrape"
            THEN response'.kind # "no data"
          ELSE th'[t].done # <<>> /\ th'[t].done[Len(th'[t].done)].report = "raise"
    ]_vars

\* C15: when opening or writing the store file has failed in a call, the
\* caller of the call sees a failure: refresh_data reports an error for the
\* unit, GET /scrape/ answers 500
C15_WriteFailureReported ==
  [][ \A t \in Threads :
        (/\ th[t].cyc.active /\ th[t].cyc.pc = "ret" /\ th[t].cyc.resp.fault
         /\ ~th'[t].cyc.active) =>
          IF th[t].job = "scrape"
            THEN response' = HttpResponse(500, "error")
          ELSE th'[t].done # <<>> /\ th'[t].done[Len(th'[t].done)].report = "raise"
    ]_vars

\* a GET /scrape/ has been answered with 500 after json.dump failed in its
\* call, with the store file opened and not completed
C15_Witness ==
  /\ th["loop"].job = "idle" /\ response = HttpResponse(500, "error")
  /\ \E src \in TableSources :
       /\ hist[src]["ME"] # <<>> /\ hist[src]["ME"][1].resp.fault
       /\ hist[src]["ME"][1].ret = "raise" /\ ~hist[src]["ME"][1].after.closed
       /\ hist[src]["ME"][1].after # Absent

\* C20 as stated: a firing of the interval job starts a refresh of all
\* sources: with the firing a thread begins the body of
\* refresh_all_scrapers, with the four sources before it
C20_FiringRunsRefresh ==
  [][ count'.fire = count.fire + 1 =>
        \E t \in Threads :
          /\ th'[t] # th[t] /\ th'[t].job = "refresh_all"
          /\ th'[t].srcs = <<"nps", "zerodha", "paytm", "equity">> /\ th'[t].done = <<>>
    ]_vars

\* C6: when a refresh has gone through its sources, it has called
\* get_emails_by_subject once for every account of every source it covers,
\* in the order of the configuration, whatever calls raised: for the refresh
\* of all sources the seven units, for the refresh of one source its accounts
C6_SiblingsStillRun ==
  \A t \in Threads :
    (th[t].job \in {"refresh", "refresh_all"} /\ th[t].phase = "next_source"
       /\ th[t].srcs = <<>>) =>
      LET done == th[t].done
          all == << <<"nps", env["ME"]>>, <<"zerodha", env["ME"]>>, <<"zerodha", env["MAA"]>>,
                    <<"paytm", env["ME"]>>, <<"equity", env["ME"]>>, <<"equity", env["BABA"]>>,
                    <<"equity", env["MAA"]>> >>
      IN  /\ done # <<>>
          /\ [i \in 1..Len(done) |-> <<done[i].src, done[i].email>>]
               = IF th[t].job = "refresh_all" THEN all
                 ELSE SelectSeq(all, LAMBDA u : u[1] = done[1].src)

\* the refresh of all sources has ended; the call of the first account of
\* the brokerage source raised and so did the call of the second account of
\* the contract-note source, and the calls after them ran
C6_Witness ==
  /\ th["loop"].job = "refresh_all" /\ th["loop"].phase = "next_source"
  /\ th["loop"].srcs = <<>> /\ Len(th["loop"].done) = 7
  /\ th["loop"].done[2].report = "raise" /\ th["loop"].done[3].report = "path"
  /\ th["loop"].done[6].report = "raise" /\ th["loop"].done[7].report = "path"

\* C24: the tasks of the two parsers are created in one step, by a refresh
\* of all sources in which the refresh_data calls of the four sources have
\* returned, every account of every source done; the event loop starts a
\* task only when that refresh has returned and no call is under way; and
\* no step of a call of a table source creates, starts or advances a parser
C24_ParsersAfterRefresh ==
  [][ /\ par'.tasks # par.tasks /\ Len(par'.tasks) >= Len(par.tasks) =>
           /\ par'.tasks = par.tasks \o <<"nps", "equity">>
           /\ \E t \in Threads :
                /\ th[t].job = "refresh_all" /\ th[t].phase = "next_source"
                /\ th[t].srcs = <<>> /\ ~th[t].cyc.active
                /\ [i \in 1..Len(th[t].done) |-> th[t].done[i].src]
                     = <<"nps", "zerodha", "zerodha", "paytm", "equity", "equity", "equity">>
                /\ th'[t].job = "tasks"
      /\ par'.started # par.started =>
           /\ th["loop"].job = "tasks" /\ ~th["loop"].cyc.active
           /\ par.tasks # <<>> /\ par'.started = Append(par.started, Head(par.tasks))
      /\ \A t \in Threads :
           (th[t].cyc.active /\ th[t].cyc.src \in TableSources) => par' = par
    ]_vars

\* the startup refresh has returned although two of its calls raised; the
\* event loop has started the pension parser, then the contract-note
\* parser, and is free for requests
C24_Witness ==
  /\ par.started = <<"nps", "equity">> /\ par.tasks = <<>>
  /\ th["loop"].job = "idle" /\ count.req = 0
  /\ hist["zerodha"]["ME"] # <<>> /\ hist["zerodha"]["ME"][1].ret = "raise"
  /\ hist["zerodha"]["MAA"] # <<>> /\ hist["zerodha"]["MAA"][1].ret = "path"

\* C27: every refresh of all sources, and every call it makes, has the start
\* and the end date that were computed from the day on which the
\* configuration was loaded, whatever the current day is
C27_DatesFixedAtLoad ==
  \A t \in Threads :
    th[t].job = "refresh_all" =>
      /\ th[t].start = Date(cfgDay - 90) /\ th[t].end = Date(cfgDay)
      /\ th[t].cyc.active =>
           th[t].cyc.start = Date(cfgDay - 90) /\ th[t].cyc.end = Date(cfgDay)

\* a midnight has passed since the configuration was loaded and the interval
\* has elapsed; a call of the refresh of all sources has listed the messages
\* of the range that ends on the day of the load
C27_Witness ==
  /\ today > cfgDay /\ count.fire > 0
  /\ th["loop"].job = "refresh_all" /\ TheCall.active /\ TheCall.pc = "msg"
  /\ TheCall.end = Date(cfgDay) /\ TheCall.end # Date(today)

(***************************************************************************)
(* Properties of the document parsers                                      *)
(***************************************************************************)
\* the parsed file and the summary file of PDF i of the run
ParsedOf(i) == DerivedFile(par.run, par.pdfs[i], ParsedSuffix)
SummaryOf(i) == DerivedFile(par.run, par.pdfs[i], SummarySuffix)

\* C23: a derived file that exists stays; in every step in which a run sends
\* a PDF to the document parser the parsed file of the PDF does not exist,
\* and in every step in which a run sends a query about a PDF to the
\* summarizer the summary file of the PDF does not exist
C23_DerivedFilesSkip ==
  [][ /\ \A q \in DOMAIN fs : q \in DOMAIN fs'
      /\ (par.run # "none" /\ par'.run = par.run) =>
           \A i \in 1..Len(par.pdfs) :
             /\ (par.pc[i] # "aload" /\ par'.pc[i] = "aload") => ~Exists(fs, ParsedOf(i))
             /\ (par.busy = i /\ par'.q = par.q + 1) => ~Exists(fs, SummaryOf(i))
             /\ (Exists(fs, ParsedOf(i)) /\ par.pc[i] = "new") => par'.pc[i] \in {"new", "done"}
             /\ (Exists(fs, SummaryOf(i)) /\ par.pc[i] = "extract") =>
                  par'.pc[i] \in {"extract", "done"}
    ]_vars

\* the second run over two PDFs has ended for both without a call of the
\* document parser: the parsed files of both exist; the summary of the first
\* exists as well
C23_Witness ==
  /\ par.run # "none" /\ par.runs = 2 /\ par.pdfs # <<>> /\ Len(par.pdfs) = 2
  /\ par.pc = <<"done", "done">> /\ count.fault = 0
  /\ Exists(fs, ParsedOf(1)) /\ Exists(fs, SummaryOf(1))
  /\ Exists(fs, ParsedOf(2)) /\ ~Exists(fs, SummaryOf(2))

\* the parsed file of a PDF exists, its summary file does not, and no task
\* of the run holds the documents of the PDF
Stuck(files, p, src, n) ==
  /\ Exists(files, DerivedFile(src, PdfCandidates(src)[n], ParsedSuffix))
  /\ ~Exists(files, DerivedFile(src, PdfCandidates(src)[n], SummarySuffix))
  /\ p.run = src =>
       \A i \in 1..Len(p.pdfs) :
         p.pdfs[i] = PdfCandidates(src)[n] => p.pc[i] \in {"new", "done"}

\* C29: when a run has left the parsed file of a PDF without its summary
\* file, no step of that run or of a later run sends a query about the PDF
\* to the summarizer or writes the summary file: the PDF stays without
\* summary
C29_NoSummaryEver ==
  [][ \A src \in AttachmentSources : \A n \in 1..Len(PdfCandidates(src)) :
        Stuck(fs, par, src, n) =>
          /\ Stuck(fs', par', src, n)
          /\ \A i \in 1..Len(par.pdfs) :
               (par.run = src /\ par.pdfs[i] = PdfCandidates(src)[n]) =>
                 ~(par.busy = i /\ par'.q = par.q + 1)
    ]_vars

\* the first run wrote the parsed file of the only PDF and ended when the
\* summarizer raised; the task of the second run has returned and the PDF
\* has no summary
C29_Witness ==
  /\ par.run # "none" /\ par.runs = 2 /\ par.pdfs # <<>> /\ Len(par.pdfs) = 1
  /\ par.pc = <<"done">> /\ count.fault > 0
  /\ Exists(fs, ParsedOf(1)) /\ ~Exists(fs, SummaryOf(1))

(***************************************************************************)
(* Calls of generate_record_id                                             *)
(***************************************************************************)
\* the arguments of the documented example call and further ISO texts
Example ==
  [fund |-> <<"A","x","i","s"," ","B","l","u","e","c","h","i","p"," ","F","u","n","d">>,
   subject |-> <<"A","l","l","o","t","m","e","n","t"," ","R","e","p","o","r","t">>,
   timestamp |-> <<"2","0","2","4","-","0","1","-","0","5","T","1","0",":","0","0",":","0","0","Z">>,
   leap |-> <<"2","0","2","4","-","0","2","-","2","9","T","2","3",":","5","9",":","5","9">>,
   offset |-> <<"2","0","2","4","-","0","1","-","0","5","T","1","0",":","0","0",":","0","0","+","0","5",":","3","0">>,
   noLeap |-> <<"2","0","2","3","-","0","2","-","2","9","T","0","0",":","0","0",":","0","0">>]
IdExample == <<"2","0","2","4","0","1","0","5","1","0","0","0","0","0","_","A","x","i","s","B","l","u","e","c","h","i","p","F","u","n","d","_","A","l","l","o","t","m","e","n","t","R","e","p","o","r","t">>

\* the arguments the callers pass: ISO texts (with Z, with an offset, date
\* only, an impossible date), Date headers, and texts that are no date
IdInputs ==
  [timestamp : {Example.timestamp, D1, Example.leap, Example.offset, Example.noLeap,
                DateHeader.ist, DateHeader.west, DateHeader.yearEnd,
                DateHeader.isoLike, DateHeader.bad},
   fund_name : {Some(Example.fund), Some(F1), Some(<<"a","-","B","_","9","!">>),
                Some(<<>>), None},
   subject : {Example.subject, ZERODHA_SUBJECT, <<>>}]

\* a process in which nothing has run yet and a caller holds the arguments
InitId ==
  /\ env = DefaultEnv
  /\ cfgDay = Day0 /\ today = Day0
  /\ mailbox = EmptyMailboxes /\ fs = EmptyFs
  /\ th = [t \in Threads |-> IdleFrame]
  /\ count = [req |-> 0, fire |-> 0, fault |-> 0, arr |-> 0]
  /\ response = HttpResponse(0, "none")
  /\ hist = [src \in TableSources |-> [k \in AccountKeys |-> <<>>]]
  /\ idIn \in IdInputs
  /\ idOut = NoIdOut
  /\ par = NoParser

\* the caller calls generate_record_id(timestamp, fund_name, subject)
CallGenerateRecordId ==
  /\ idOut = NoIdOut
  /\ idOut' = generate_record_id(idIn.timestamp, idIn.fund_name, idIn.subject)
  /\ UNCHANGED <<env, cfgDay, today, mailbox, fs, th, count, response, hist, idIn, par>>

SpecId == InitId /\ [][CallGenerateRecordId]_vars

\* the second of a timestamp as fourteen digits: the wall-clock time of an
\* ISO text, the local time (UTC+05:30) of the instant a Date header names
StampOf(ts) ==
  CASE ts = Example.timestamp -> Some(<<"2","0","2","4","0","1","0","5","1","0","0","0","0","0">>)
    [] ts = D1 -> Some(<<"2","0","2","4","0","1","0","5","0","0","0","0","0","0">>)
    [] ts = Example.leap -> Some(<<"2","0","2","4","0","2","2","9","2","3","5","9","5","9">>)
    [] ts = Example.offset -> Some(<<"2","0","2","4","0","1","0","5","1","0","0","0","0","0">>)
    [] ts = DateHeader.ist -> Some(<<"2","0","2","4","0","1","0","5","1","0","0","0","0","0">>)
    [] ts = DateHeader.west -> Some(<<"2","0","2","4","0","1","0","7","0","6","0","0","0","0">>)
    [] ts = DateHeader.yearEnd -> Some(<<"2","0","2","4","0","1","0","1","0","3","3","0","0","0">>)
    [] ts = DateHeader.isoLike -> Some(<<"2","0","2","4","0","1","0","5","1","0","0","0","0","0">>)
    [] OTHER -> None

OnlyAlnum(s) ==
  SelectSeq(s, LAMBDA c :
    c \in {"0","1","2","3","4","5","6","7","8","9",
           "a","b","c","d","e","f","g","h","i","j","k","l","m",
           "n","o","p","q","r","s","t","u","v","w","x","y","z",
           "A","B","C","D","E","F","G","H","I","J","K","L","M",
           "N","O","P","Q","R","S","T","U","V","W","X","Y","Z"})

SameKey(a, b) ==
  /\ StampOf(a["Date"].s).some /\ StampOf(a["Date"].s) = StampOf(b["Date"].s)
  /\ OnlyAlnum(a["Fund"].s) = OnlyAlnum(b["Fund"].s)

\* C28: in a call of the brokerage source two such rows have the same id,
\* the mapping in memory has one entry for that id, and the entry holds the
\* fields of the row that was processed last; the store file the call
\* writes has one record for them
C28_SameKeyOneRecord ==
  (TheCall.active /\ TheCall.src = "zerodha") =>
    \A i, j \in 1..Len(TheCall.batch) :
      (i < j /\ SameKey(TheCall.batch[i], TheCall.batch[j])) =>
        /\ TheCall.batch[i]["id"] = TheCall.batch[j]["id"]
        /\ Cardinality({n \in 1..Len(TheCall.existing) :
                          Some(TheCall.existing[n].k) = TheCall.batch[j]["id"]}) = 1
        /\ (\A l \in (j + 1)..Len(TheCall.batch) :
              ~SameKey(TheCall.batch[j], TheCall.batch[l])) =>
             \E n \in 1..Len(TheCall.existing) : TheCall.existing[n].v = TheCall.batch[j]
        /\ (Ended /\ TheCall.ret.kind = "path") =>
             Cardinality({n \in 1..Len(TheStore.records) :
                            JsonLoad(TheStore.records)[n]["id"] = TheCall.batch[j]["id"]}) = 1

\* a call without a store extracted three rows with different fields from
\* two statements; two of them have the same second and fund, and the store
\* the call wrote has two records, the one for that id with the fields of
\* the later row
C28_Witness ==
  /\ Ended /\ TheCall.src = "zerodha" /\ TheCall.ret.kind = "path" /\ TheCall.loaded = <<>>
  /\ Len(TheCall.batch) = 3 /\ Len(TheStore.records) = 2
  /\ \E i, j \in 1..3 :
       /\ i < j /\ SameKey(TheCall.batch[i], TheCall.batch[j])
       /\ TheCall.batch[i]["Fund"] # TheCall.batch[j]["Fund"]
       /\ TheCall.batch[i]["Amount"] # TheCall.batch[j]["Amount"]
       /\ \E n \in 1..2 : JsonLoad(TheStore.records)[n] = TheCall.batch[j]

(***************************************************************************)
(* Calls of extract_table_data                                             *)
(***************************************************************************)
\* a caller holds the HTML of a mail: up to MaxTables tables, each with or
\* without the style of the statement table, with or without header cells,
\* with no row, rows with and without the class fund_list, cells with
\* blanks around the text, more cells than headers and fewer
InitExtract ==
  /\ env = DefaultEnv
  /\ cfgDay = Day0 /\ today = Day0
  /\ mailbox = EmptyMailboxes /\ fs = EmptyFs
  /\ th = [t \in Threads |-> IdleFrame]
  /\ count = [req |-> 0, fire |-> 0, fault |-> 0, arr |-> 0]
  /\ response = HttpResponse(0, "none")
  /\ hist = [src \in TableSources |-> [k \in AccountKeys |-> <<>>]]
  /\ LET rows == { <<>>,
                   <<Row(TRUE, <<D1, F1>>)>>,
                   <<Row(FALSE, <<D1, F1>>)>>,
                   <<Row(TRUE, <<<<" ","2","0","2","4"," ">>, F2>>), Row(FALSE, <<D2, F2>>),
                     Row(TRUE, <<D2>>)>>,
                   <<Row(TRUE, <<D1, F1, <<"9">>>>), Row(TRUE, <<D1, F2>>)>> }
         tables == {Table(sig, <<"Date", "Fund">>, trs) : sig \in BOOLEAN, trs \in rows}
                     \cup {Table(TRUE, <<>>, <<Row(TRUE, <<D1, F1>>)>>)}
     IN  idIn \in [tables : UNION {[1..n -> tables] : n \in 0..MaxTables}]
  /\ idOut = NoIdOut
  /\ par = NoParser

\* the caller calls extract_table_data(html_content)
CallExtractTableData ==
  /\ idOut = NoIdOut
  /\ idOut' = Ok(extract_table_data(idIn.tables))
  /\ UNCHANGED <<env, cfgDay, today, mailbox, fs, th, count, response, hist, idIn, par>>

SpecExtract == InitExtract /\ [][CallExtractTableData]_vars

\* C17: extract_table_data returns None exactly when no table of the HTML
\* has the style of the statement table; otherwise it returns a list with
\* one dict for every row of class fund_list of the first such table, in
\* the order of the rows, each dict pairing the header texts with the
\* stripped cell texts of its row: the empty list when the table has no
\* such row
C17_NoneOrRows ==
  idOut # NoIdOut =>
    LET styled == {i \in 1..Len(idIn.tables) : idIn.tables[i].sig}
    IN  /\ idOut.err = "none"
        /\ idOut.v.found <=> styled # {}
        /\ ~idOut.v.found => idOut.v.rows = <<>>
        /\ idOut.v.found =>
             LET table == idIn.tables[CHOOSE i \in styled : \A j \in styled : i <= j]
                 marked == SelectSeq(table.trs, LAMBDA tr : tr.fund_list)
             IN  /\ Len(idOut.v.rows) = Len(marked)
                 /\ \A n \in 1..Len(marked) :
                      /\ DOMAIN idOut.v.rows[n]
                           = {table.ths[h] : h \in 1..Len(table.ths)}
                               \ {table.ths[h] : h \in (Len(marked[n].tds) + 1)..Len(table.ths)}
                      /\ \A h \in 1..Len(table.ths) :
                           h <= Len(marked[n].tds) =>
                             idOut.v.rows[n][table.ths[h]] = Strip(marked[n].tds[h])

\* the HTML has a table without the style and then one with the style, with
\* header cells and one row that is not of class fund_list: the call
\* returned the empty list, not None
C17_Witness ==
  /\ idOut # NoIdOut /\ Len(idIn.tables) = 2
  /\ ~idIn.tables[1].sig /\ idIn.tables[2].sig
  /\ idIn.tables[2].ths # <<>> /\ Len(idIn.tables[2].trs) = 1
  /\ idOut.v.found /\ idOut.v.rows = <<>>

====
